---- MODULE Spec2Model ----
(***************************************************************************)
(* tm2py: preparation of the time-of-day scenarios                         *)
(* (tm2py/model/prepare/create_tod_scenarios.py).                          *)
(*                                                                         *)
(* Attribute names are sequences of characters, so that endswith, the      *)
(* stripping of the period suffix and of the trailing underscore are       *)
(* computed as the code computes them.  The leading "@" of an extra        *)
(* attribute is left implicit.  A chunk such as "free_flow_time" stands    *)
(* for a run of characters none of which occurs in a period name.          *)
(***************************************************************************)
EXTENDS Integers, Sequences, FiniteSets, TLC

VARIABLES
    pc,          \* position of run(): the stage being executed
    db,          \* the emmebank the current stage works on
    bank,        \* db -> (scenario id -> scenario): the two emmebanks
    periods,     \* config.periods: sequence of [name, emme_scenario_id]
    groups,      \* tod_attr_groups: domain -> sequence of [root, attrs]
    ppc,         \* per period: position in the body of the period loop
    gi,          \* per period: number of attribute groups already reduced
    err,         \* the exception run() ended with, "none" while running
    enum_desc,   \* the platform lists extra attributes in descending order
    fi,          \* index of the period whose transit lines are filtered next
    pass,        \* number of the current call of the slicing routine
    snap,        \* the highway emmebank as the first call left it
    capclass_lookup,  \* config.highway.capclass_lookup: sequence of rows
    links,       \* the links of the network that is classified
    nodes,       \* the nodes of that network: sequence of [maz_id, x, y]
    maz_landuse_data,  \* MAZ id -> land-use record
    sp_index_maz,      \* the spatial index of the MAZ nodes
    buff_dist,   \* the half width of the density buffer, in feet
    ci,          \* position in the current loop of the classification
    calls,       \* number of calls made of each method of the index
    prior,       \* the area types of the MAZs before the land use grew
    transit_links,  \* the links of the transit network: sequence of [link_id]
    call         \* a call of a function of tools.py or skims.py and its outcome

\* The state of _set_area_type.
areaVars == <<nodes, maz_landuse_data, sp_index_maz, buff_dist, ci, calls, prior>>

\* The state of the link classification.
netVars == <<capclass_lookup, links, areaVars>>

vars == <<pc, db, bank, periods, transit_links, call, enum_desc, groups, ppc, gi, err,
          fi, pass, snap, netVars>>

----------------------------------------------------------------------------
(* Bounds of the model *)

\* Largest number of period-suffixed extra attributes on a reference scenario.
MaxAttrs == 4
\* Largest number of configured time periods.
MaxPeriods == 2
\* Number of network elements per domain.
NumElems == 2
\* Largest number of rows of the capclass lookup table.
MaxRows == 2
\* Number of links of the network that is classified.
NumLinks == 1
\* Largest number of MAZs of the land-use table.
MaxZones == 2
\* Largest number of processors of the machine.
MaxProcessors == 2
\* Largest number of characters after the "MAX-" part of a processor count.
MaxDigits == 2
\* Largest number of modes, and of properties, a sum of skims is asked for.
MaxNames == 2

----------------------------------------------------------------------------
(* Strings *)

AM == <<"A", "M">>
PM == <<"P", "M">>
M  == <<"M">>

\* str.upper, on the letters that occur
UpperChar(c) ==
    CASE c = "a" -> "A" [] c = "m" -> "M" [] c = "p" -> "P" [] c = "e" -> "E"
      [] c = "x" -> "X" [] c = "t" -> "T" [] c = "i" -> "I" [] c = "d" -> "D"
      [] c = "s" -> "S" [] OTHER -> c
Upper(s) == [i \in 1..Len(s) |-> UpperChar(s[i])]

\* str.endswith
EndsWith(s, suf) ==
    /\ Len(suf) <= Len(s)
    /\ SubSeq(s, Len(s) - Len(suf) + 1, Len(s)) = suf

\* s[:-n]  (Python: s[:-0] is the empty string)
DropLast(s, n) == IF n = 0 THEN <<>> ELSE SubSeq(s, 1, Len(s) - n)

\* s[:n]
Truncate(s, n) == IF Len(s) <= n THEN s ELSE SubSeq(s, 1, n)

TitleMax == 60

----------------------------------------------------------------------------
(* The extra attributes a scenario may carry, in ascending order of their  *)
(* names.  Next to the attributes of one root with and without underscore, *)
(* of a node attribute and of the stamped link attributes there is a root  *)
(* that itself ends in a period name ("cAM_").                             *)

AttrUniverse == <<
    [name |-> <<"area_type">>,                      type |-> "LINK"],
    [name |-> <<"c">>,                              type |-> "LINK"],
    [name |-> <<"c", "A", "M">>,                    type |-> "LINK"],
    [name |-> <<"c", "A", "M", "_", "A", "M">>,     type |-> "LINK"],
    [name |-> <<"c", "A", "M", "_", "P", "M">>,     type |-> "LINK"],
    [name |-> <<"c", "P", "M">>,                    type |-> "LINK"],
    [name |-> <<"c", "_", "A", "M">>,               type |-> "LINK"],
    [name |-> <<"c", "_", "P", "M">>,               type |-> "LINK"],
    [name |-> <<"capclass">>,                       type |-> "LINK"],
    [name |-> <<"free_flow_speed">>,                type |-> "LINK"],
    [name |-> <<"free_flow_time">>,                 type |-> "LINK"],
    [name |-> <<"free_flow_time", "_", "A", "M">>,  type |-> "LINK"],
    [name |-> <<"n", "A", "M">>,                    type |-> "NODE"],
    [name |-> <<"n", "P", "M">>,                    type |-> "NODE"],
    [name |-> <<"trantime">>,                       type |-> "LINK"] >>

UIndex == 1..Len(AttrUniverse)

\* The attributes an all-day network may come with: the period-suffixed
\* ones and the un-suffixed "c".
Suffixed == {i \in UIndex : Len(AttrUniverse[i].name) > 1}
Selectable == Suffixed \cup {i \in UIndex : AttrUniverse[i].name = <<"c">>}

Elems == 1..NumElems

\* Every attribute of the reference holds values no other attribute holds.
RefValue(i, e) == 100 * i + e
RefDescription(i) == <<"about">> \o AttrUniverse[i].name

RefAttr(i) ==
    [type |-> AttrUniverse[i].type,
     description |-> RefDescription(i),
     values |-> [e \in Elems |-> RefValue(i, e)]]

\* config.emme.all_day_scenario_id, and the scenario slots of an emmebank
AllDay == 1
ScenarioIds == 1..4

\* Domains, in the order tod_attr_groups lists them.
Domains == <<"NODE", "LINK", "TURN", "TRANSIT_LINE", "TRANSIT_SEGMENT">>

\* The configured periods are drawn from these: two ordinary periods, a
\* period whose name is a suffix of theirs, and a period that is given the
\* all-day scenario's id.  Periods of one configuration differ in their
\* names and in their scenario ids.
PeriodUniverse ==
    { [name |-> AM, emme_scenario_id |-> 2],
      [name |-> PM, emme_scenario_id |-> 3],
      [name |-> M,  emme_scenario_id |-> 4],
      [name |-> PM, emme_scenario_id |-> AllDay] }

RECURSIVE SeqsUpTo(_, _)
\* The sequences over S of length 1..n with pairwise different names.
SeqsUpTo(S, n) ==
    IF n = 0 THEN {<<>>}
    ELSE LET shorter == SeqsUpTo(S, n - 1)
         IN  shorter \cup
             { Append(q, p) : q \in {r \in shorter : Len(r) = n - 1}, p \in S }

DistinctNames(q) == \A i, j \in 1..Len(q) : i # j => q[i].name # q[j].name

PeriodConfigs ==
    { q \in SeqsUpTo(PeriodUniverse, MaxPeriods) : Len(q) >= 1 /\ DistinctNames(q) }

----------------------------------------------------------------------------
(* The network platform: scenarios and their extra attributes *)

\* Scenario.extra_attribute(name) is None
NoAttribute(s, name) == name \notin DOMAIN s.attrs

Without(f, k) == [n \in DOMAIN f \ {k} |-> f[n]]

\* The result of a sequence of platform calls on one scenario: the scenario
\* and the exception raised, if any.  A call after an exception does nothing.
Ok(s) == [s |-> s, err |-> "none"]
Raise(r, e) == [r EXCEPT !.err = e]

\* Scenario.create_extra_attribute(domain, name): a new attribute, all 0
create_extra_attribute(r, domain, name) ==
    IF r.err # "none" THEN r
    ELSE IF ~NoAttribute(r.s, name) THEN Raise(r, "ExistenceError")
    ELSE [r EXCEPT !.s.attrs = r.s.attrs @@
            (name :> [type |-> domain, description |-> <<>>,
                      values |-> [e \in Elems |-> 0]])]

\* Scenario.delete_extra_attribute(name)
delete_extra_attribute(r, name) ==
    IF r.err # "none" THEN r
    ELSE IF NoAttribute(r.s, name) THEN Raise(r, "ArgumentError")
    ELSE [r EXCEPT !.s.attrs = Without(r.s.attrs, name)]

\* attr.description = scenario.extra_attribute(src).description
copy_description(r, name, src) ==
    IF r.err # "none" THEN r
    ELSE IF NoAttribute(r.s, src) THEN Raise(r, "AttributeError")
    ELSE [r EXCEPT !.s.attrs[name].description = r.s.attrs[src].description]

\* values = scenario.get_attribute_values(domain, [src])
\* scenario.set_attribute_values(domain, [name], values)
copy_values(r, domain, name, src) ==
    IF r.err # "none" THEN r
    ELSE IF NoAttribute(r.s, src) \/ r.s.attrs[src].type # domain
         THEN Raise(r, "ArgumentError")
    ELSE [r EXCEPT !.s.attrs[name].values = r.s.attrs[src].values]

----------------------------------------------------------------------------
(* Discovery of the time-of-day attributes *)

\* Scenario.extra_attributes(): the attributes of the scenario, in
\* ascending or in descending order of their names
ExtraAttributes(s) ==
    LET n == Len(AttrUniverse)
        at(k) == IF enum_desc THEN n + 1 - k ELSE k
        F[k \in 0..n] ==
            IF k = 0 THEN <<>>
            ELSE IF AttrUniverse[at(k)].name \in DOMAIN s.attrs
                 THEN Append(F[k - 1],
                             [name |-> AttrUniverse[at(k)].name,
                              type |-> s.attrs[AttrUniverse[at(k)].name].type])
                 ELSE F[k - 1]
    IN  F[n]

EmptyGroups == [d \in {Domains[i] : i \in 1..Len(Domains)} |-> <<>>]

\* tod_attr_groups[domain][root].append(name), on a defaultdict of lists
AppendToGroup(tab, domain, root, name) ==
    LET lst == tab[domain]
        at  == {i \in 1..Len(lst) : lst[i].root = root}
    IN  IF at = {}
        THEN [tab EXCEPT ![domain] = Append(lst, [root |-> root, attrs |-> <<name>>])]
        ELSE LET i == CHOOSE i \in at : TRUE
             IN  [tab EXCEPT ![domain][i].attrs = Append(lst[i].attrs, name)]

\* for period in self.config.periods: if attr.name.endswith(period.name): ...
DiscoverAttr(tab, attr, pers) ==
    LET F[j \in 0..Len(pers)] ==
            IF j = 0 THEN tab
            ELSE IF EndsWith(attr.name, pers[j].name)
                 THEN AppendToGroup(F[j - 1], attr.type,
                                    DropLast(attr.name, Len(pers[j].name)), attr.name)
                 ELSE F[j - 1]
    IN  F[Len(pers)]

\* Mutant: the table of an earlier call is kept and appended to.
DiscoverGroupsKept(s, pers) ==
    LET attrs == ExtraAttributes(s)
        F[i \in 0..Len(attrs)] ==
            IF i = 0 THEN groups ELSE DiscoverAttr(F[i - 1], attrs[i], pers)
    IN  F[Len(attrs)]

\* for attr in ref_scenario.extra_attributes(): ...
DiscoverGroups(s, pers) ==
    LET attrs == ExtraAttributes(s)
        F[i \in 0..Len(attrs)] ==
            IF i = 0 THEN EmptyGroups ELSE DiscoverAttr(F[i - 1], attrs[i], pers)
    IN  F[Len(attrs)]

\* for domain, all_attrs in tod_attr_groups.items():
\*     for root_attr, tod_attrs in all_attrs.items():
GroupList(tab) ==
    LET F[d \in 0..Len(Domains)] ==
            IF d = 0 THEN <<>>
            ELSE F[d - 1] \o
                 [i \in 1..Len(tab[Domains[d]]) |->
                    [domain |-> Domains[d],
                     root |-> tab[Domains[d]][i].root,
                     attrs |-> tab[Domains[d]][i].attrs]]
    IN  F[Len(Domains)]

\* if root_attr.endswith("_"): root_attr = root_attr[:-1]
CanonicalName(root) == IF EndsWith(root, <<"_">>) THEN DropLast(root, 1) ELSE root

\* for attr in tod_attrs: if attr != src_attr: delete_extra_attribute(attr)
DeleteOthers(r, attrs, src) ==
    LET F[i \in 0..Len(attrs)] ==
            IF i = 0 THEN r
            ELSE IF attrs[i] # src THEN delete_extra_attribute(F[i - 1], attrs[i])
                 ELSE F[i - 1]
    IN  F[Len(attrs)]

\* The body of the loop over the groups, for one group and one period.
ReduceGroupIn(s, g, pname) ==
    LET src  == g.root \o pname
        root == CanonicalName(g.root)
        r1 == DeleteOthers(Ok(s), g.attrs, src)
        r2 == create_extra_attribute(r1, g.domain, root)
        r3 == copy_description(r2, root, src)
        r4 == copy_values(r3, g.domain, root, src)
    IN  delete_extra_attribute(r4, src)

----------------------------------------------------------------------------
(* SpatialGridIndex (tm2py.core.tools) *)

\* Coordinates are feet.  Optional values (a key a dict may lack) are kept
\* as sequences of length zero or one.
NoValue == <<>>
Some(v) == <<v>>

Abs(n) == IF n < 0 THEN -n ELSE n
Max(a, b) == IF a < b THEN b ELSE a
Sq(n) == n * n

\* Floor of a / b for b > 0.
FloorDiv(a, b) == IF a >= 0 THEN a \div b ELSE -((-a + b - 1) \div b)

\* SpatialGridIndex(size): no cell holds an id.
EmptyIndex(size) == [size |-> size, cells |-> <<>>, points |-> <<>>]

\* The cell under (x, y).
CellOf(idx, x, y) == <<FloorDiv(x, idx.size), FloorDiv(y, idx.size)>>

\* insert(id, x, y): adds id to the cell under (x, y).
insert(idx, id, x, y) ==
    LET cell == CellOf(idx, x, y)
        held == IF cell \in DOMAIN idx.cells THEN idx.cells[cell] ELSE {}
    IN  [idx EXCEPT !.cells  = (cell :> (held \cup {id})) @@ @,
                    !.points = (id :> <<x, y>>) @@ @]

\* Mutant: only the cell under (x, y) is scanned.
CellsOverlappingOwn(idx, x, y, r) ==
    {c \in DOMAIN idx.cells : c = CellOf(idx, x, y)}

\* The cells a square of half width r around (x, y) overlaps.
CellsOverlapping(idx, x, y, r) ==
    LET lo == CellOf(idx, x - r, y - r)
        hi == CellOf(idx, x + r, y + r)
    IN  {c \in DOMAIN idx.cells : /\ lo[1] <= c[1] /\ c[1] <= hi[1]
                                  /\ lo[2] <= c[2] /\ c[2] <= hi[2]}

\* within_square(x, y, half_width): the ids of the overlapping cells whose
\* point lies in the square.
within_square(idx, x, y, r) ==
    {id \in UNION {idx.cells[c] : c \in CellsOverlapping(idx, x, y, r)} :
        /\ Abs(idx.points[id][1] - x) <= r
        /\ Abs(idx.points[id][2] - y) <= r}

\* Squared distance of the point of id to (x, y).
Dist2(idx, id, x, y) == Sq(idx.points[id][1] - x) + Sq(idx.points[id][2] - y)

\* The ids in the cells at ring k around the cell of (x, y).
Ring(idx, x, y, k) ==
    LET q == CellOf(idx, x, y)
    IN  UNION {idx.cells[c] : c \in {c \in DOMAIN idx.cells :
                   Max(Abs(c[1] - q[1]), Abs(c[2] - q[2])) = k}}

\* The better of a candidate (empty, or <<id>>) and the ids of a ring: the
\* smallest distance, and among equal distances the lowest id.
Closest(idx, x, y, best, ids) ==
    LET all == ids \cup {best[i] : i \in DOMAIN best}
    IN  IF all = {} THEN NoValue
        ELSE Some(CHOOSE a \in all : \A b \in all :
                    \/ Dist2(idx, a, x, y) < Dist2(idx, b, x, y)
                    \/ Dist2(idx, a, x, y) = Dist2(idx, b, x, y) /\ a <= b)

\* Mutant: the search stops at the first ring that holds an id.
RECURSIVE SearchFromFirstHit(_, _, _, _, _)
SearchFromFirstHit(idx, x, y, k, best) ==
    LET found == Closest(idx, x, y, best, Ring(idx, x, y, k))
    IN  IF found # NoValue
        THEN found
        ELSE SearchFromFirstHit(idx, x, y, k + 1, found)

\* The search outward from ring k: it stops when the candidate is closer
\* than any point of an unexamined ring can be (those are further than
\* k * size away).
RECURSIVE SearchFrom(_, _, _, _, _)
SearchFrom(idx, x, y, k, best) ==
    LET found == Closest(idx, x, y, best, Ring(idx, x, y, k))
    IN  IF found # NoValue /\ Dist2(idx, found[1], x, y) < Sq(k * idx.size)
        THEN found
        ELSE SearchFrom(idx, x, y, k + 1, found)

\* nearest(x, y): the id closest to (x, y); no value on an empty index.
nearest(idx, x, y) ==
    IF DOMAIN idx.points = {} THEN NoValue ELSE SearchFrom(idx, x, y, 0, NoValue)

----------------------------------------------------------------------------
(* _set_area_type, _set_capclass *)

\* SpatialGridIndex(size=0.5 * 5280)
IndexCellSize == 2640
\* buff_dist = 5280 * config.highway.area_type_buffer_dist_miles, for a
\* distance given in quarters of a mile
BuffDist(quarters) == (5280 * quarters) \div 4

\* The body of the loop over the nodes: a node of a MAZ gives the MAZ its
\* coordinates and is inserted into the index.
IndexNode(st, node) ==
    IF node.maz_id # 0
    THEN [st EXCEPT !.data[node.maz_id].coords = Some(<<node.x, node.y>>),
                    !.index = insert(@, node.maz_id, node.x, node.y)]
    ELSE st

RECURSIVE SumOver(_, _)
SumOver(ids, f) ==
    IF ids = {} THEN 0
    ELSE LET id == CHOOSE id \in ids : TRUE
         IN  f[id] + SumOver(ids \ {id}, f)

\* Mutant: employment counts as much as population.
DensityUnweighted(total_pop, total_emp, total_acres) ==
    IF total_acres > 0
    THEN [num |-> total_pop + total_emp, den |-> total_acres]
    ELSE [num |-> 0, den |-> 1]

\* Mutant: square feet per person and job instead of persons and jobs per
\* acre.
DensityInverted(total_pop, total_emp, total_acres) ==
    IF total_acres > 0 /\ 2 * total_pop + 5 * total_emp > 0
    THEN [num |-> 2 * 43560 * total_acres, den |-> 2 * total_pop + 5 * total_emp]
    ELSE [num |-> 0, den |-> 1]

\* (1 * total_pop + 2.5 * total_emp) / total_acres if total_acres > 0, else
\* 0; kept as the fraction num / den with den > 0.
Density(total_pop, total_emp, total_acres) ==
    IF total_acres > 0
    THEN [num |-> 2 * total_pop + 5 * total_emp, den |-> 2 * total_acres]
    ELSE [num |-> 0, den |-> 1]

\* Mutant: the upper bound of a class belongs to the class.
BelowOrEqual(density, bound) == density.num <= bound * density.den

\* density < bound
Below(density, bound) == density.num < bound * density.den

\* Mutant: a MAZ without density is given the sentinel -1.
AreaTypeOfSentinel(density) ==
    IF density.num = 0 THEN -1
    ELSE IF Below(density, 6) THEN 5
    ELSE IF Below(density, 30) THEN 4
    ELSE IF Below(density, 55) THEN 3
    ELSE IF Below(density, 100) THEN 2
    ELSE IF Below(density, 300) THEN 1
    ELSE 0

\* code area type class
AreaTypeOf(density) ==
    IF Below(density, 6) THEN 5
    ELSE IF Below(density, 30) THEN 4
    ELSE IF Below(density, 55) THEN 3
    ELSE IF Below(density, 100) THEN 2
    ELSE IF Below(density, 300) THEN 1
    ELSE 0

\* Mutant: a MAZ without coordinates is classified as if it lay at (0, 0).
ClassifyZoneUnskipped(st, z, buff) ==
    LET xy == IF st.data[z].coords = NoValue THEN <<0, 0>> ELSE st.data[z].coords[1]
        other_maz_ids == within_square(st.index, xy[1], xy[2], buff)
        total_pop   == SumOver(other_maz_ids, [id \in other_maz_ids |-> st.data[id].POP])
        total_emp   == SumOver(other_maz_ids, [id \in other_maz_ids |-> st.data[id].emp_total])
        total_acres == SumOver(other_maz_ids, [id \in other_maz_ids |-> st.data[id].ACRES])
        density == Density(total_pop, total_emp, total_acres)
    IN  [st EXCEPT !.data[z].density = Some(density),
                   !.data[z].area_type = Some(AreaTypeOf(density))]

\* The body of the loop over maz_landuse_data.values(), for the MAZ z.
ClassifyZone(st, z, buff) ==
    IF st.data[z].coords = NoValue THEN st
    ELSE LET xy == st.data[z].coords[1]
             other_maz_ids == within_square(st.index, xy[1], xy[2], buff)
             total_pop   == SumOver(other_maz_ids, [id \in other_maz_ids |-> st.data[id].POP])
             total_emp   == SumOver(other_maz_ids, [id \in other_maz_ids |-> st.data[id].emp_total])
             total_acres == SumOver(other_maz_ids, [id \in other_maz_ids |-> st.data[id].ACRES])
             density == Density(total_pop, total_emp, total_acres)
         IN  [st EXCEPT !.data[z].density = Some(density),
                        !.data[z].area_type = Some(AreaTypeOf(density))]

\* Mutant: the area type at the i-node is taken.
MinFirst(a, b) == a

\* min(a, b)
Min(a, b) == IF b < a THEN b ELSE a

\* The body of the loop over the links of _set_area_type; no value when the
\* index has no nearest MAZ to give.
LinkAreaType(st, ns, link) ==
    LET a_maz == nearest(st.index, ns[link.i_node].x, ns[link.i_node].y)
        b_maz == nearest(st.index, ns[link.j_node].x, ns[link.j_node].y)
    IN  IF a_maz = NoValue \/ b_maz = NoValue THEN NoValue
        ELSE IF st.data[a_maz[1]].area_type = NoValue
                \/ st.data[b_maz[1]].area_type = NoValue THEN NoValue
        ELSE Some(Min(st.data[a_maz[1]].area_type[1], st.data[b_maz[1]].area_type[1]))

\* Mutant: a negative area type is not told apart.
SetLinkCapclassUnguarded(link) ==
    [link EXCEPT !.capclass = 10 * link.area_type + link.ft]

\* The body of the loop of _set_capclass.
SetLinkCapclass(link) ==
    [link EXCEPT !.capclass = IF link.area_type < 0 THEN -1
                              ELSE 10 * link.area_type + link.ft]

----------------------------------------------------------------------------
(* _set_speed: the lookup of the free-flow speed *)

\* The capacity classes of the lookup rows.
Capclasses == {11, 27}
Speeds == {0, 30, 55}
Lengths == {0, 2}

\* A row of config.highway.capclass_lookup; has_speed is FALSE for a row
\* whose free_flow_speed is None or missing.
LookupRows ==
    [capclass : Capclasses, has_speed : {TRUE}, free_flow_speed : Speeds]
    \cup [capclass : Capclasses, has_speed : {FALSE}, free_flow_speed : {0}]

RECURSIVE TablesUpTo(_)
TablesUpTo(n) ==
    IF n = 0 THEN {<<>>}
    ELSE LET shorter == TablesUpTo(n - 1)
         IN  shorter \cup
             { Append(q, row) : q \in {r \in shorter : Len(r) = n - 1},
                                row \in LookupRows }

DefaultSpeed == 25

\* for row in capclass_lookup:
\*     if row.get("free_flow_speed") is not None:
\*         free_flow_speed_map[row["capclass"]] = row.get("free_flow_speed")
free_flow_speed_map(table) ==
    LET F[i \in 0..Len(table)] ==
            IF i = 0 THEN <<>>
            ELSE IF table[i].has_speed
                 THEN (table[i].capclass :> table[i].free_flow_speed) @@ F[i - 1]
                 ELSE F[i - 1]
    IN  F[Len(table)]

\* free_flow_speed_map.get(link["@capclass"], 25)
LookupSpeed(map, capclass) ==
    IF capclass \in DOMAIN map THEN map[capclass] ELSE DefaultSpeed

\* Mutant: a speed of zero is not replaced.
SpeedOrDefaultKept(v) == v

\* link["@free_flow_speed"] or 25
SpeedOrDefault(v) == IF v = 0 THEN DefaultSpeed ELSE v

\* The body of the loop over the links.  The free-flow time 60 * length /
\* speed is kept as the fraction num / den.
SetLinkSpeed(map, link) ==
    LET ffs   == LookupSpeed(map, link.capclass)
        speed == SpeedOrDefault(ffs)
    IN  [link EXCEPT !.free_flow_speed = ffs,
                     !.free_flow_time = [num |-> 60 * link.length, den |-> speed]]

----------------------------------------------------------------------------
(* The classification of a whole network *)

\* A land-use record as read from the MAZ land-use file.
LandUse(pop, emp, acres) ==
    [POP |-> pop, emp_total |-> emp, ACRES |-> acres,
     coords |-> NoValue, density |-> NoValue, area_type |-> NoValue]

\* A node; maz_id is 0 for a node that is not the node of a MAZ.
Node(maz_id, xy) == [maz_id |-> maz_id, x |-> xy[1], y |-> xy[2]]

\* A link whose extra attributes have just been created.
Link(i, j, ft, length) ==
    [i_node |-> i, j_node |-> j, ft |-> ft, length |-> length,
     area_type |-> 0, capclass |-> 0, free_flow_speed |-> 0,
     free_flow_time |-> [num |-> 0, den |-> 1]]

\* No method of the index has been called.
NoCalls == [insert |-> 0, within_square |-> 0, nearest |-> 0]

\* _set_area_type(network): the links with their area type, or not ok when
\* the index has no nearest MAZ for a link.
set_area_type(ns, ls, data, buff) ==
    LET st0 == [data |-> data, index |-> EmptyIndex(IndexCellSize)]
        I[i \in 0..Len(ns)] ==
            IF i = 0 THEN st0 ELSE IndexNode(I[i - 1], ns[i])
        Z[z \in 0..Len(data)] ==
            IF z = 0 THEN I[Len(ns)] ELSE ClassifyZone(Z[z - 1], z, buff)
        types == [l \in DOMAIN ls |-> LinkAreaType(Z[Len(data)], ns, ls[l])]
    IN  IF \E l \in DOMAIN ls : types[l] = NoValue
        THEN [ok |-> FALSE, links |-> ls]
        ELSE [ok |-> TRUE,
              links |-> [l \in DOMAIN ls |-> [ls[l] EXCEPT !.area_type = types[l][1]]]]

\* _set_capclass(network)
set_capclass(ls) == [l \in DOMAIN ls |-> SetLinkCapclass(ls[l])]

\* _set_speed(network)
set_speed(ls, table) ==
    [l \in DOMAIN ls |-> SetLinkSpeed(free_flow_speed_map(table), ls[l])]

\* Mutant: the classified network is not written back to the scenario.
publish_network_skipped(s, ls) == s

\* ref_scenario.publish_network(network): the values of the four link
\* attributes are those of the network's links.
publish_network(s, ls) ==
    [s EXCEPT !.attrs[<<"area_type">>].values = [e \in Elems |-> ls[e].area_type],
              !.attrs[<<"capclass">>].values = [e \in Elems |-> ls[e].capclass],
              !.attrs[<<"free_flow_speed">>].values = [e \in Elems |-> ls[e].free_flow_speed],
              !.attrs[<<"free_flow_time">>].values = [e \in Elems |-> ls[e].free_flow_time]]

----------------------------------------------------------------------------
(* The state before run() *)

\* The network and the land use of the run: a MAZ of 30 persons and 12 jobs
\* on one acre at the i-node of every link, and a lookup row for the
\* capclass this gives.
RunNodes == << Node(1, <<0, 0>>), Node(0, <<1320, 0>>) >>
RunLandUse == << LandUse(30, 12, 1) >>
RunLinks == [e \in Elems |-> Link(1, 2, 7, e) @@ [link_id |-> e]]

\* A link of the transit network: its #link_id, @ft, length and #cntype.
TransitLink(link_id, ft, length, cntype) ==
    [link_id |-> link_id, ft |-> ft, length |-> length, cntype |-> cntype]

\* The links of the transit network carry the #link_id of their highway
\* twins.
RunTransitLinks == [e \in Elems |-> TransitLink(e, 7, e, "")]

\* No function of tools.py or skims.py is being called.
NoCall == <<>>
RunLookup == << [capclass |-> 27, has_speed |-> TRUE, free_flow_speed |-> 55] >>

\* The all-day scenario of an emmebank, carrying the attributes `chosen`.
Reference(chosen, lines) ==
    [title |-> <<"all day">>,
     attrs |-> [n \in {AttrUniverse[i].name : i \in chosen} |->
                  RefAttr(CHOOSE i \in chosen : AttrUniverse[i].name = n)],
     lines |-> lines]

\* A scenario an earlier run left in a period's slot.
Leftover ==
    [title |-> <<"old">>,
     attrs |-> (<<"c">> :> [type |-> "LINK", description |-> <<"old">>,
                            values |-> [e \in Elems |-> 7]])
               @@ (<<"stale">> :> [type |-> "NODE", description |-> <<"old">>,
                                  values |-> [e \in Elems |-> 8]]),
     lines |-> {}]

TransitLines ==
    { [id |-> 1, time_period |-> <<"a", "m">>],
      [id |-> 2, time_period |-> <<"P", "M">>],
      [id |-> 3, time_period |-> <<"E", "A">>] }

Emmebank(chosen, lines, stale) ==
    (AllDay :> Reference(chosen, lines))
    @@ [i \in (IF stale THEN ScenarioIds \ {AllDay} ELSE {}) |-> Leftover]

Init ==
    /\ pc = "highway"
    /\ db = "highway"
    /\ \E chosen \in SUBSET Selectable, stale \in BOOLEAN :
          /\ Cardinality(chosen) <= MaxAttrs
          /\ bank = [highway |-> Emmebank(chosen, {}, stale),
                     transit |-> Emmebank(chosen, TransitLines, stale)]
    /\ periods \in PeriodConfigs
    /\ enum_desc \in BOOLEAN
    /\ groups = EmptyGroups
    /\ ppc = [k \in 1..Len(periods) |-> "todo"]
    /\ gi = [k \in 1..Len(periods) |-> 0]
    /\ err = "none"
    /\ fi = 1
    /\ pass = 1
    /\ snap = <<>>
    /\ capclass_lookup = RunLookup
    /\ links = RunLinks
    /\ nodes = RunNodes
    /\ maz_landuse_data = RunLandUse
    /\ sp_index_maz = EmptyIndex(IndexCellSize)
    /\ buff_dist = BuffDist(1)
    /\ ci = 1
    /\ calls = NoCalls
    /\ prior = NoValue
    /\ transit_links = RunTransitLinks
    /\ call = NoCall

----------------------------------------------------------------------------
(* run() *)

\* Mutant: the exception is recorded and the run goes on.
AbortSwallowed(e) == err' = e /\ pc' = pc

\* An exception leaves run(): nothing catches it.
Abort(e) == pc' = "error" /\ err' = e

\* if ref_scenario.extra_attribute(name) is None:
\*     ref_scenario.create_extra_attribute(domain, name)
EnsureAttributes(s, domain, names) ==
    LET F[i \in 0..Len(names)] ==
            IF i = 0 THEN Ok(s)
            ELSE IF NoAttribute(F[i - 1].s, names[i])
                 THEN create_extra_attribute(F[i - 1], domain, names[i])
                 ELSE F[i - 1]
    IN  F[Len(names)].s

HighwayAttributes ==
    << <<"area_type">>, <<"capclass">>, <<"free_flow_speed">>, <<"free_flow_time">> >>

TransitAttributes == << <<"trantime">> >> \o HighwayAttributes

\* link[attr] of a link of the auto network
AutoValue(auto_link, attr) ==
    IF attr = <<"area_type">> THEN auto_link.area_type
    ELSE IF attr = <<"capclass">> THEN auto_link.capclass
    ELSE IF attr = <<"free_flow_speed">> THEN auto_link.free_flow_speed
    ELSE auto_link.free_flow_time

\* Mutant: the auto link at the same position in the list of links.
link_lookup_by_position(ls, tl, e) == IF e \in DOMAIN ls THEN Some(ls[e]) ELSE NoValue

\* link_lookup.get(link["#link_id"]) for the transit link e: the last auto
\* link that carries the id, if any.
link_lookup(ls, tl, e) ==
    LET hits == {l \in DOMAIN ls : ls[l].link_id = tl[e].link_id}
    IN  IF hits = {} THEN NoValue
        ELSE Some(ls[CHOOSE l \in hits : \A m \in hits : m <= l])

\* copy link attributes from auto network to transit network
CopyFromAuto(s, tl, ls) ==
    [s EXCEPT !.attrs =
        [n \in DOMAIN s.attrs |->
            IF \E i \in DOMAIN HighwayAttributes : HighwayAttributes[i] = n
            THEN [s.attrs[n] EXCEPT !.values =
                    [e \in Elems |->
                        LET auto_link == link_lookup(ls, tl, e)
                        IN  IF auto_link = NoValue THEN s.attrs[n].values[e]
                            ELSE AutoValue(auto_link[1], n)]]
            ELSE s.attrs[n]]]

\* cntype_speed_map.get(link["#cntype"]), in miles per hour; no value for
\* a link that is no fixed guideway.
cntype_speed_map(cntype) ==
    CASE cntype = "CRAIL" -> Some(45)
      [] cntype = "HRAIL" -> Some(40)
      [] cntype = "LRAIL" -> Some(30)
      [] cntype = "FERRY" -> Some(15)
      [] OTHER -> NoValue

\* set fixed guideway times, and initial free flow auto link times: the
\* time 60 * length / speed, for a road that is no freeway with
\* length * 5 * 0.33 added, kept as a fraction; unchanged without speed.
SetTrantime(s, tl) ==
    [s EXCEPT !.attrs[<<"trantime">>].values =
        [e \in Elems |->
            LET fixed == cntype_speed_map(tl[e].cntype)
                speed == s.attrs[<<"free_flow_speed">>].values[e]
            IN  IF fixed # NoValue
                THEN [num |-> 60 * tl[e].length, den |-> fixed[1]]
                ELSE IF tl[e].ft = 1 /\ speed > 0
                THEN [num |-> 60 * tl[e].length, den |-> speed]
                ELSE IF speed > 0
                THEN [num |-> tl[e].length * (6000 + 165 * speed), den |-> 100 * speed]
                ELSE s.attrs[<<"trantime">>].values[e]]]

\* _create_highway_scenarios, up to the call of the slicing routine: the
\* four link attributes are created where missing, the network is classified
\* and published.
CreateHighwayScenarios ==
    /\ pc = "highway"
    /\ db' = "highway"
    /\ LET ref  == EnsureAttributes(bank.highway[AllDay], "LINK", HighwayAttributes)
           area == set_area_type(nodes, links, maz_landuse_data, buff_dist)
           network == set_speed(set_capclass(area.links), capclass_lookup)
       IN  IF area.ok
           THEN /\ links' = network
                /\ bank' = [bank EXCEPT !.highway[AllDay] = publish_network(ref, network)]
                /\ pc' = "discover"
                /\ UNCHANGED err
           ELSE /\ bank' = [bank EXCEPT !.highway[AllDay] = ref]
                /\ Abort("LookupError")
                /\ UNCHANGED links
    /\ UNCHANGED <<periods, transit_links, call, enum_desc, groups, ppc, gi, fi, pass, snap,
                   capclass_lookup, areaVars>>

\* _create_transit_scenarios, up to the call of the slicing routine; a mode
\* or vehicle that contradicts the configured tables raises.
CreateTransitScenarios ==
    /\ pc = "transit"
    /\ db' = "transit"
    /\ LET ref == EnsureAttributes(bank.transit[AllDay], "LINK", TransitAttributes)
           network == SetTrantime(CopyFromAuto(ref, transit_links, links), transit_links)
       IN  \/ /\ bank' = [bank EXCEPT !.transit[AllDay] = network]
              /\ pc' = "discover"
              /\ UNCHANGED err
           \/ /\ bank' = [bank EXCEPT !.transit[AllDay] = ref]
              /\ Abort("Exception")
    /\ UNCHANGED <<periods, transit_links, call, enum_desc, groups, ppc, gi, fi, pass, snap, netVars>>

\* _prepare_scenarios_and_attributes: find all time-of-day attributes
Discover ==
    /\ pc = "discover"
    /\ groups' = DiscoverGroups(bank[db][AllDay], periods)
    /\ ppc' = [k \in 1..Len(periods) |-> "todo"]
    /\ gi' = [k \in 1..Len(periods) |-> 0]
    /\ pc' = "periods"
    /\ UNCHANGED <<db, bank, periods, transit_links, call, enum_desc, err, fi, pass, snap, netVars>>

\* The stage that follows the slicing of the current emmebank.
AfterSlicing == IF db = "highway" THEN "transit" ELSE "filter"

\* The period loop is over once the body has run for every period.
LoopEnd(p, after) == IF \A k \in DOMAIN p : p[k] = "done" THEN after ELSE "periods"

\* The period the sequential loop is at.
IsCurrent(k) == ppc[k] # "done" /\ \A j \in 1..(k - 1) : ppc[j] = "done"

\* Mutant: the scenario in the period's slot is not deleted.
DeleteScenarioKept(k) ==
    /\ pc = "periods"
    /\ ppc[k] = "todo"
    /\ ppc' = [ppc EXCEPT ![k] = "cleared"]
    /\ UNCHANGED <<pc, db, bank, periods, transit_links, call, enum_desc, groups, gi, err, fi, pass, snap, netVars>>

\* scenario = emmebank.scenario(id); if scenario: emmebank.delete_scenario(scenario)
DeleteScenario(k) ==
    /\ pc = "periods"
    /\ ppc[k] = "todo"
    /\ bank' = [bank EXCEPT ![db] = Without(@, periods[k].emme_scenario_id)]
    /\ ppc' = [ppc EXCEPT ![k] = "cleared"]
    /\ UNCHANGED <<pc, db, periods, transit_links, call, enum_desc, groups, gi, err, fi, pass, snap, netVars>>

\* Mutant: the copy is taken from the scenario with the highest id.
copy_scenario_latest(b, id) ==
    b @@ (id :> b[CHOOSE j \in DOMAIN b : \A i \in DOMAIN b : i <= j])

\* emmebank.copy_scenario(ref_scenario, id): a full copy of the reference
copy_scenario(b, id) == b @@ (id :> b[AllDay])

\* scenario = emmebank.copy_scenario(ref_scenario, id); scenario.title = ...
CopyScenario(k, after) ==
    LET id == periods[k].emme_scenario_id
        b  == copy_scenario(bank[db], id)
        p  == [ppc EXCEPT ![k] = IF GroupList(groups) = <<>> THEN "done" ELSE "copied"]
    IN  /\ pc = "periods"
        /\ ppc[k] = "cleared"
        /\ IF AllDay \notin DOMAIN bank[db] \/ id \in DOMAIN bank[db]
           THEN /\ Abort("ExistenceError")
                /\ UNCHANGED <<bank, ppc>>
           ELSE /\ bank' = [bank EXCEPT ![db] =
                              [b EXCEPT ![id].title =
                                 Truncate(periods[k].name \o <<" ">> \o b[AllDay].title,
                                          TitleMax)]]
                /\ ppc' = p
                /\ pc' = LoopEnd(p, after)
                /\ UNCHANGED err
        /\ UNCHANGED <<db, periods, transit_links, call, enum_desc, groups, gi, fi, pass, snap, netVars>>

\* One pass of the loop over tod_attr_groups in the period's scenario.
ReduceGroup(k, after) ==
    LET id == periods[k].emme_scenario_id
        gl == GroupList(groups)
        r  == ReduceGroupIn(bank[db][id], gl[gi[k] + 1], periods[k].name)
        p  == [ppc EXCEPT ![k] = IF gi[k] + 1 = Len(gl) THEN "done" ELSE "copied"]
    IN  /\ pc = "periods"
        /\ ppc[k] = "copied"
        /\ bank' = [bank EXCEPT ![db][id] = r.s]
        /\ IF r.err # "none"
           THEN /\ Abort(r.err)
                /\ UNCHANGED <<ppc, gi>>
           ELSE /\ gi' = [gi EXCEPT ![k] = @ + 1]
                /\ ppc' = p
                /\ pc' = LoopEnd(p, after)
                /\ UNCHANGED err
        /\ UNCHANGED <<db, periods, transit_links, call, enum_desc, groups, fi, pass, snap, netVars>>

\* Mutant: the names are compared as they are written.
FilterLinesCaseSensitive ==
    LET id == periods[fi].emme_scenario_id
    IN  /\ pc = "filter"
        /\ bank' = [bank EXCEPT !.transit[id].lines =
                       {l \in @ : l.time_period = periods[fi].name}]
        /\ fi' = fi + 1
        /\ pc' = IF fi = Len(periods) THEN "done" ELSE "filter"
        /\ UNCHANGED <<db, periods, transit_links, call, enum_desc, groups, ppc, gi, err, pass, snap, netVars>>

\* One pass of the loop that removes the transit lines of the other periods
\* from a period's transit scenario.
FilterLines ==
    LET id == periods[fi].emme_scenario_id
        period_name == Upper(periods[fi].name)
    IN  /\ pc = "filter"
        /\ bank' = [bank EXCEPT !.transit[id].lines =
                       {l \in @ : Upper(l.time_period) = period_name}]
        /\ fi' = fi + 1
        /\ pc' = IF fi = Len(periods) THEN "done" ELSE "filter"
        /\ UNCHANGED <<db, periods, transit_links, call, enum_desc, groups, ppc, gi, err, pass, snap, netVars>>

\* The platform fails a call: the exception leaves run() like any other.
StoreFailure ==
    /\ pc \in {"highway", "transit", "discover", "periods", "filter"}
    /\ Abort("ExternalStoreError")
    /\ UNCHANGED <<db, bank, periods, transit_links, call, enum_desc, groups, ppc, gi, fi, pass, snap, netVars>>

\* The period loop of the code: one period after the other, as configured.
DeletePeriodScenario == \E k \in 1..Len(periods) : IsCurrent(k) /\ DeleteScenario(k)
CopyPeriodScenario ==
    \E k \in 1..Len(periods) : IsCurrent(k) /\ CopyScenario(k, AfterSlicing)
ReducePeriodGroup ==
    \E k \in 1..Len(periods) : IsCurrent(k) /\ ReduceGroup(k, AfterSlicing)

Next ==
    \/ CreateHighwayScenarios
    \/ Discover
    \/ DeletePeriodScenario
    \/ CopyPeriodScenario
    \/ ReducePeriodGroup
    \/ CreateTransitScenarios
    \/ FilterLines
    \/ StoreFailure

Spec == Init /\ [][Next]_vars

----------------------------------------------------------------------------
(* The slicing routine called twice in a row on the highway emmebank *)

AfterCall == IF pass = 1 THEN "again" ELSE "done"

DeleteInCall == \E k \in 1..Len(periods) : IsCurrent(k) /\ DeleteScenario(k)
CopyInCall == \E k \in 1..Len(periods) : IsCurrent(k) /\ CopyScenario(k, AfterCall)
ReduceInCall == \E k \in 1..Len(periods) : IsCurrent(k) /\ ReduceGroup(k, AfterCall)

SecondCall ==
    /\ pc = "again"
    /\ snap' = bank.highway
    /\ pass' = 2
    /\ pc' = "discover"
    /\ UNCHANGED <<db, bank, periods, transit_links, call, enum_desc, groups, ppc, gi, err, fi, netVars>>

NextTwice ==
    \/ CreateHighwayScenarios
    \/ Discover
    \/ DeleteInCall
    \/ CopyInCall
    \/ ReduceInCall
    \/ SecondCall

SpecTwice == Init /\ [][NextTwice]_vars

----------------------------------------------------------------------------
(* The periods processed in any order, their steps interleaved *)

DeleteAnyPeriod == \E k \in 1..Len(periods) : DeleteScenario(k)
CopyAnyPeriod == \E k \in 1..Len(periods) : CopyScenario(k, "done")
ReduceAnyPeriod == \E k \in 1..Len(periods) : ReduceGroup(k, "done")

NextAnyOrder ==
    \/ CreateHighwayScenarios
    \/ Discover
    \/ DeleteAnyPeriod
    \/ CopyAnyPeriod
    \/ ReduceAnyPeriod

SpecAnyOrder == Init /\ [][NextAnyOrder]_vars

----------------------------------------------------------------------------
(* run() on a transit network whose links need not have a highway twin *)

\* A #link_id no link of the highway network carries.
NoTwin == 0

\* The attributes of the universe with the given names.
Named(names) ==
    {i \in UIndex : \E k \in DOMAIN names : AttrUniverse[i].name = names[k]}

\* The period attributes of the root "c_".
PeriodAttributes == Named(<< <<"c", "_", "A", "M">>, <<"c", "_", "P", "M">> >>)

\* The transit reference carries the four link attributes from an earlier
\* run, or does not; a transit link carries the #link_id of the highway
\* link at the mirrored position, or one no highway link has.
InitTransit ==
    /\ pc = "highway"
    /\ db = "highway"
    /\ \E chosen \in {{}, PeriodAttributes}, earlier \in {{}, Named(HighwayAttributes)} :
          bank = [highway |-> Emmebank(chosen, {}, FALSE),
                  transit |-> Emmebank(chosen \cup earlier, TransitLines, FALSE)]
    /\ periods \in PeriodConfigs
    /\ enum_desc = FALSE
    /\ groups = EmptyGroups
    /\ ppc = [k \in 1..Len(periods) |-> "todo"]
    /\ gi = [k \in 1..Len(periods) |-> 0]
    /\ err = "none"
    /\ fi = 1
    /\ pass = 1
    /\ snap = <<>>
    /\ capclass_lookup = RunLookup
    /\ links = RunLinks
    /\ nodes = RunNodes
    /\ maz_landuse_data = RunLandUse
    /\ sp_index_maz = EmptyIndex(IndexCellSize)
    /\ buff_dist = BuffDist(1)
    /\ ci = 1
    /\ calls = NoCalls
    /\ prior = NoValue
    /\ \E twin \in [Elems -> BOOLEAN] :
          transit_links = [e \in Elems |->
              TransitLink(IF twin[e] THEN NumElems + 1 - e ELSE NoTwin, 7, e, "")]
    /\ call = NoCall

SpecTransit == InitTransit /\ [][Next]_vars

----------------------------------------------------------------------------
(* _set_capclass and _set_speed on their own *)

\* No emmebank is open and no period is being sliced.
NoSlicing ==
    /\ db = "highway"
    /\ bank = <<>>
    /\ periods = <<>>
    /\ enum_desc = FALSE
    /\ groups = EmptyGroups
    /\ ppc = <<>>
    /\ gi = <<>>
    /\ err = "none"
    /\ fi = 1
    /\ pass = 1
    /\ snap = <<>>
    /\ transit_links = <<>>
    /\ call = NoCall

\* The area types and facility types of the links.
LinkAreaTypes == {-1, 1, 2}
FacilityTypes == {1, 7}

InitSpeed ==
    /\ pc = "capclass"
    /\ capclass_lookup \in TablesUpTo(MaxRows)
    /\ nodes = << Node(0, <<0, 0>>), Node(0, <<1320, 0>>) >>
    /\ links \in [1..NumLinks ->
                    {[Link(1, 2, ft, length) EXCEPT !.area_type = a] :
                        a \in LinkAreaTypes, ft \in FacilityTypes, length \in Lengths}]
    /\ maz_landuse_data = <<>>
    /\ sp_index_maz = EmptyIndex(IndexCellSize)
    /\ buff_dist = BuffDist(1)
    /\ ci = 1
    /\ calls = NoCalls
    /\ prior = NoValue
    /\ NoSlicing

SetCapclass ==
    /\ pc = "capclass"
    /\ links' = set_capclass(links)
    /\ pc' = "set_speed"
    /\ UNCHANGED <<db, bank, periods, transit_links, call, enum_desc, groups, ppc, gi, err, fi, pass, snap,
                   capclass_lookup, areaVars>>

SetSpeed ==
    /\ pc = "set_speed"
    /\ links' = set_speed(links, capclass_lookup)
    /\ pc' = "speed_set"
    /\ UNCHANGED <<db, bank, periods, transit_links, call, enum_desc, groups, ppc, gi, err, fi, pass, snap,
                   capclass_lookup, areaVars>>

SpecSpeed == InitSpeed /\ [][SetCapclass \/ SetSpeed]_vars

----------------------------------------------------------------------------
(* _set_area_type, step by step *)

\* The land use of a MAZ: nobody, people and jobs, people on no acreage,
\* jobs only.
LandUses ==
    { LandUse(0, 0, 1), LandUse(30, 12, 1), LandUse(30, 0, 0), LandUse(0, 12, 1) }

\* Where the node of a MAZ may lie.
Points == { <<0, 0>>, <<1320, -1320>>, <<-2640, 5280>> }

\* The nodes that are no MAZ nodes: one at equal distance from the first two
\* points, one far from all.
PlainPoint == <<660, -660>>
FarPoint == <<7920, 7920>>

\* The buffer distances, in quarters of a mile.
BufferQuarters == {1, 4}

\* The nodes of the MAZs that have one (at[z] is empty or holds the point
\* of MAZ z), followed by the plain nodes.
NodesOf(at) ==
    LET F[z \in 0..Len(at)] ==
            IF z = 0 THEN <<>>
            ELSE IF at[z] = NoValue THEN F[z - 1]
                 ELSE Append(F[z - 1], Node(z, at[z][1]))
    IN  F[Len(at)] \o << Node(0, PlainPoint), Node(0, FarPoint) >>

\* A link for every ordered pair of different nodes.
LinksOf(n) ==
    LET F[k \in 0..n * n] ==
            IF k = 0 THEN <<>>
            ELSE LET i == ((k - 1) \div n) + 1
                     j == ((k - 1) % n) + 1
                 IN  IF i = j THEN F[k - 1] ELSE Append(F[k - 1], Link(i, j, 7, 2))
    IN  F[n * n]

\* The last node of a network whose nodes are not all known to the
\* land-use table: its @maz_id is the one after the last MAZ of the table.
StrayNode(n) == Node(n + 1, <<0, 2640>>)

InitArea ==
    /\ pc = "index"
    /\ \E n \in 1..MaxZones :
          /\ maz_landuse_data \in [1..n -> LandUses]
          /\ \E at \in [1..n -> {NoValue} \cup {Some(p) : p \in Points}] :
                /\ \/ nodes = NodesOf(at)
                   \/ nodes = Append(NodesOf(at), StrayNode(n))
                /\ links = LinksOf(Len(NodesOf(at)))
    /\ \E q \in BufferQuarters : buff_dist = BuffDist(q)
    /\ capclass_lookup = RunLookup
    /\ sp_index_maz = EmptyIndex(IndexCellSize)
    /\ ci = 1
    /\ calls = NoCalls
    /\ prior = NoValue
    /\ NoSlicing

State == [data |-> maz_landuse_data, index |-> sp_index_maz]

\* Mutant: the loop over the nodes ends after the first node.
AllNodesVisitedEarly == ci > 1

\* for node in network.nodes(): no node is left
AllNodesVisited == ci > Len(nodes)

\* maz_landuse_data[int(node["@maz_id"])] finds no record
\* (mutant: the record is not looked up)
NoRecordIgnored(node) == FALSE
NoRecord(node) == node.maz_id # 0 /\ node.maz_id \notin DOMAIN maz_landuse_data

\* for node in network.nodes(): one node; the node of a MAZ that is not in
\* the land-use table ends the run with a KeyError
InsertNode ==
    /\ pc = "index"
    /\ ~AllNodesVisited
    /\ IF NoRecord(nodes[ci])
       THEN /\ Abort("KeyError")
            /\ UNCHANGED <<maz_landuse_data, sp_index_maz, calls, ci>>
       ELSE /\ LET st == IndexNode(State, nodes[ci])
               IN  /\ maz_landuse_data' = st.data
                   /\ sp_index_maz' = st.index
            /\ calls' = IF nodes[ci].maz_id # 0 THEN [calls EXCEPT !.insert = @ + 1]
                        ELSE calls
            /\ ci' = ci + 1
            /\ UNCHANGED <<pc, err>>
    /\ UNCHANGED <<db, bank, periods, transit_links, call, enum_desc, groups, ppc, gi, fi, pass, snap,
                   capclass_lookup, links, nodes, buff_dist, prior>>

\* The step from one loop of _set_area_type to the next.
NextLoop(from, to) ==
    /\ pc = from
    /\ pc' = to
    /\ ci' = 1
    /\ UNCHANGED <<db, bank, periods, transit_links, call, enum_desc, groups, ppc, gi, err, fi, pass, snap,
                   capclass_lookup, links, nodes, maz_landuse_data, sp_index_maz,
                   buff_dist, calls, prior>>

IndexBuilt == AllNodesVisited /\ NextLoop("index", "density")

\* for maz_landuse in maz_landuse_data.values(): one MAZ
ClassifyNextZone ==
    /\ pc = "density"
    /\ ci <= Len(maz_landuse_data)
    /\ maz_landuse_data' = ClassifyZone(State, ci, buff_dist).data
    /\ calls' = IF maz_landuse_data[ci].coords # NoValue
                THEN [calls EXCEPT !.within_square = @ + 1] ELSE calls
    /\ ci' = ci + 1
    /\ UNCHANGED <<pc, db, bank, periods, transit_links, call, enum_desc, groups, ppc, gi, err, fi, pass, snap,
                   capclass_lookup, links, nodes, sp_index_maz, buff_dist, prior>>

ZonesClassified == ci > Len(maz_landuse_data) /\ NextLoop("density", "area_links")

\* The index has a nearest MAZ for both ends of the link.
NearestFound(st, ns, link) ==
    /\ nearest(st.index, ns[link.i_node].x, ns[link.i_node].y) # NoValue
    /\ nearest(st.index, ns[link.j_node].x, ns[link.j_node].y) # NoValue

\* for link in network.links(): one link; nearest fails on an empty index,
\* and maz_landuse_data[a_maz]["area_type"] on a MAZ without area type
ClassifyNextLink ==
    /\ pc = "area_links"
    /\ ci <= Len(links)
    /\ LET area_type == LinkAreaType(State, nodes, links[ci])
       IN  IF area_type = NoValue
           THEN IF NearestFound(State, nodes, links[ci])
                THEN /\ Abort("KeyError")
                     /\ calls' = [calls EXCEPT !.nearest = @ + 2]
                     /\ UNCHANGED <<links, ci>>
                ELSE /\ Abort("LookupError")
                     /\ calls' = [calls EXCEPT !.nearest = @ + 1]
                     /\ UNCHANGED <<links, ci>>
           ELSE /\ links' = [links EXCEPT ![ci].area_type = area_type[1]]
                /\ calls' = [calls EXCEPT !.nearest = @ + 2]
                /\ ci' = ci + 1
                /\ UNCHANGED <<pc, err>>
    /\ UNCHANGED <<db, bank, periods, transit_links, call, enum_desc, groups, ppc, gi, fi, pass, snap,
                   capclass_lookup, nodes, maz_landuse_data, sp_index_maz, buff_dist,
                   prior>>

LinksClassified == ci > Len(links) /\ NextLoop("area_links", "capclass")

NextArea ==
    \/ InsertNode
    \/ IndexBuilt
    \/ ClassifyNextZone
    \/ ZonesClassified
    \/ ClassifyNextLink
    \/ LinksClassified
    \/ SetCapclass
    \/ SetSpeed

SpecArea == InitArea /\ [][NextArea]_vars

----------------------------------------------------------------------------
(* The area type of a MAZ as a function of the land use in its buffer *)

\* Populations around the breakpoints of the density, and the employment
\* and acreage of the first MAZ.
Populations == {0, 5, 6, 29, 30, 54, 55, 100, 299, 300}
Employments == {0, 2}
Acreages == {0, 1}

\* By how much a population or an employment grows.
Growths == {1, 25, 300}

\* The first MAZ lies at the first point; the second, if it has a node,
\* within the buffer of the first.
InitDensity ==
    /\ pc = "index"
    /\ \E pop \in Populations, emp \in Employments, acres \in Acreages,
          other \in LandUses, at \in {NoValue, Some(<<1320, -1320>>)} :
          /\ maz_landuse_data = << LandUse(pop, emp, acres), other >>
          /\ nodes = NodesOf(<< Some(<<0, 0>>), at >>)
    /\ links = <<>>
    /\ buff_dist = BuffDist(1)
    /\ capclass_lookup = RunLookup
    /\ sp_index_maz = EmptyIndex(IndexCellSize)
    /\ ci = 1
    /\ calls = NoCalls
    /\ prior = NoValue
    /\ NoSlicing

\* The land use of one MAZ grows and the MAZs are classified again (a second
\* run on the same network).
Grow ==
    /\ pc = "area_links"
    /\ prior = NoValue
    /\ prior' = Some([z \in DOMAIN maz_landuse_data |-> maz_landuse_data[z].area_type])
    /\ \E z \in DOMAIN maz_landuse_data, by \in Growths :
          \/ maz_landuse_data' = [maz_landuse_data EXCEPT ![z].POP = @ + by]
          \/ maz_landuse_data' = [maz_landuse_data EXCEPT ![z].emp_total = @ + by]
    /\ pc' = "density"
    /\ ci' = 1
    /\ UNCHANGED <<db, bank, periods, transit_links, call, enum_desc, groups, ppc, gi, err, fi, pass, snap,
                   capclass_lookup, links, nodes, sp_index_maz, buff_dist, calls>>

NextDensity ==
    \/ InsertNode
    \/ IndexBuilt
    \/ ClassifyNextZone
    \/ ZonesClassified
    \/ Grow

SpecDensity == InitDensity /\ [][NextDensity]_vars

----------------------------------------------------------------------------
(* tools.py: parse_num_processors *)

\* No emmebank is open and no network is being classified.
NothingOpen ==
    /\ db = "highway"
    /\ bank = <<>>
    /\ periods = <<>>
    /\ enum_desc = FALSE
    /\ groups = EmptyGroups
    /\ ppc = <<>>
    /\ gi = <<>>
    /\ err = "none"
    /\ fi = 1
    /\ pass = 1
    /\ snap = <<>>
    /\ transit_links = <<>>
    /\ capclass_lookup = <<>>
    /\ links = <<>>
    /\ nodes = <<>>
    /\ maz_landuse_data = <<>>
    /\ sp_index_maz = EmptyIndex(IndexCellSize)
    /\ buff_dist = BuffDist(1)
    /\ ci = 1
    /\ calls = NoCalls
    /\ prior = NoValue

\* Python values: a str, an int, and a float given in tenths.
PyStr(chars) == [type |-> "str", chars |-> chars]
PyInt(n) == [type |-> "int", n |-> n]
PyFloat(tenths) == [type |-> "float", tenths |-> tenths]

\* The outcome of a call: the value returned or the exception raised.
Return(v) == [kind |-> "return", value |-> v]
Raises(e) == [kind |-> "raise", exc |-> e]

DigitChars == {"0", "1", "3"}
DigitValue(c) == CASE c = "0" -> 0 [] c = "1" -> 1 [] c = "3" -> 3

\* re.match("^[0-9]+$", s)
IsDigits(s) == Len(s) > 0 /\ \A i \in 1..Len(s) : s[i] \in DigitChars

\* The number a run of digits writes.
RECURSIVE DigitsValue(_)
DigitsValue(s) ==
    IF s = <<>> THEN 0
    ELSE 10 * DigitsValue(SubSeq(s, 1, Len(s) - 1)) + DigitValue(s[Len(s)])

\* The first position from i on that holds no blank.
SkipBlanks(s, i) ==
    CHOOSE j \in i..(Len(s) + 1) :
        /\ \A k \in i..(j - 1) : s[k] = " "
        /\ j = Len(s) + 1 \/ s[j] # " "

\* s.strip()
Strip(s) ==
    LET from == SkipBlanks(s, 1)
        to == IF from > Len(s) THEN Len(s)
              ELSE CHOOSE j \in from..Len(s) :
                      /\ s[j] # " "
                      /\ \A k \in (j + 1)..Len(s) : s[k] = " "
    IN  SubSeq(s, from, to)

\* int(s) for a str: blanks around an optional minus sign and digits; no
\* value where Python raises ValueError.
int_of_str(s) ==
    LET body == Strip(s)
    IN  IF IsDigits(body) THEN Some(DigitsValue(body))
        ELSE IF Len(body) > 1 /\ body[1] = "-" /\ IsDigits(Tail(body))
             THEN Some(-DigitsValue(Tail(body)))
        ELSE NoValue

\* int(value) for an int or a float: the fraction is cut off.
int_of_number(value) ==
    IF value.type = "int" THEN value.n
    ELSE IF value.tenths >= 0 THEN value.tenths \div 10
    ELSE -((-value.tenths) \div 10)

\* re.split(r"^MAX[\s]*-[\s]*", s): the empty string and the rest where s
\* begins with MAX, blanks, a minus sign and blanks, else s alone.
SplitMax(s) ==
    IF Len(s) >= 3 /\ SubSeq(s, 1, 3) = <<"M", "A", "X">>
    THEN LET i == SkipBlanks(s, 4)
         IN  IF i <= Len(s) /\ s[i] = "-"
             THEN << <<>>, SubSeq(s, SkipBlanks(s, i + 1), Len(s)) >>
             ELSE << s >>
    ELSE << s >>

\* parse_num_processors(value) on a machine of max_processors processors
parse_num_processors(value, max_processors) ==
    IF value.type = "str"
    THEN LET result == Upper(value.chars)
         IN  IF result = <<"M", "A", "X">> THEN Return(PyInt(max_processors))
             ELSE IF IsDigits(value.chars)
             THEN Return(PyInt(DigitsValue(value.chars)))
             ELSE LET parts == SplitMax(result)
                  IN  IF Len(parts) = 2
                      THEN IF int_of_str(parts[2]) = NoValue
                           THEN Raises("ValueError")
                           ELSE Return(PyInt(Max(max_processors - int_of_str(parts[2])[1], 1)))
                      ELSE Raises("Exception")
    ELSE LET result == int_of_number(value)
         IN  IF result > max_processors THEN Raises("Exception")
             ELSE IF result < 1 THEN Raises("Exception")
             ELSE Return(value)

\* The values the function is called with: strings made of a beginning, of
\* blanks and minus signs, and of digits or an X; ints and floats around the
\* range of the processors.
Beginnings == { <<>>, <<"M", "A", "X">>, <<"m", "a", "x">>, <<"M", "A">> }
Strings ==
    { b \o m \o d : b \in Beginnings, m \in SeqsUpTo({" ", "-"}, 2),
                    d \in SeqsUpTo(DigitChars \cup {"X"}, MaxDigits) }
Numbers ==
    { PyInt(n) : n \in (-1)..(MaxProcessors + 1) }
        \cup { PyFloat(5 * h) : h \in (-1)..(2 * MaxProcessors + 2) }

InitProcessors ==
    /\ pc = "parse"
    /\ \E value \in {PyStr(s) : s \in Strings} \cup Numbers,
          max_processors \in 1..MaxProcessors :
          call = [value |-> value, max_processors |-> max_processors]
    /\ NothingOpen

ParseNumProcessors ==
    /\ pc = "parse"
    /\ call' = call @@ [outcome |-> parse_num_processors(call.value, call.max_processors)]
    /\ pc' = "parsed"
    /\ UNCHANGED <<db, bank, periods, transit_links, enum_desc, groups, ppc, gi, err,
                   fi, pass, snap, netVars>>

SpecProcessors == InitProcessors /\ [][ParseNumProcessors]_vars

----------------------------------------------------------------------------
(* skims.py: get_summed_skims *)

\* A skim matrix, kept as the row of its cells.
MatrixCells == 2
Matrix == [1..MatrixCells -> 0..1]

SkimModes == {"wlk", "bike"}
SkimProperties == {"time", "dist"}

\* A name given alone and a list of names.
Str(s) == [type |-> "str", s |-> s]
List(items) == [type |-> "list", items |-> items]
NamesOver(S) ==
    { Str(s) : s \in S } \cup { List(q) : q \in SeqsUpTo(S, MaxNames) \ {<<>>} }

\* if isinstance(x, str): x = [x]
AsList(x) == IF x.type = "str" THEN <<x.s>> ELSE x.items

\* itertools.product(a, b): every pair, the first component varying slowest.
product(a, b) ==
    [k \in 1..(Len(a) * Len(b)) |->
        <<a[((k - 1) \div Len(b)) + 1], b[((k - 1) % Len(b)) + 1]>>]

\* np.add called with the positional arguments args: the element-wise sum
\* of two arrays; with fewer than two arguments a TypeError.
np_add(args) ==
    IF Len(args) = 2
    THEN Return([i \in 1..MatrixCells |-> args[1][i] + args[2][i]])
    ELSE Raises("TypeError")

\* get_summed_skims(controller, mode, ..., property, ...), where skims gives
\* the matrix get_omx_skim_as_numpy reads for a mode and a property.
get_summed_skims(skims, mode, property) ==
    LET pairs == product(AsList(mode), AsList(property))
        _mx_list == [k \in 1..Len(pairs) |-> skims[pairs[k]]]
    IN  IF Len(_mx_list) = 1 THEN Return(_mx_list[1])
        ELSE np_add(<<_mx_list>>)

InitSummed ==
    /\ pc = "sum"
    /\ \E skims \in [SkimModes \X SkimProperties -> Matrix],
          mode \in NamesOver(SkimModes), property \in NamesOver(SkimProperties) :
          call = [skims |-> skims, mode |-> mode, property |-> property]
    /\ NothingOpen

GetSummedSkims ==
    /\ pc = "sum"
    /\ call' = call @@ [outcome |-> get_summed_skims(call.skims, call.mode, call.property)]
    /\ pc' = "summed"
    /\ UNCHANGED <<db, bank, periods, transit_links, enum_desc, groups, ppc, gi, err,
                   fi, pass, snap, netVars>>

SpecSummed == InitSummed /\ [][GetSummedSkims]_vars

----------------------------------------------------------------------------
(* skims.py: get_omx_skim_as_numpy *)

\* str.lower()
LowerChar(c) ==
    CASE c = "A" -> "a" [] c = "M" -> "m" [] c = "P" -> "p" [] OTHER -> c
Lower(s) == [i \in 1..Len(s) |-> LowerChar(s[i])]

\* A format template is a row of literal texts and of named fields.
Lit(chars) == [kind |-> "lit", text |-> chars]
Field(name) == [kind |-> "field", text |-> name]

\* tmpl.format(**kwargs): the fields replaced by the keyword of their name;
\* KeyError when a field has no keyword, keywords without field are ignored.
RECURSIVE Filled(_, _)
Filled(tmpl, kwargs) ==
    IF tmpl = <<>> THEN <<>>
    ELSE (IF Head(tmpl).kind = "lit" THEN Head(tmpl).text ELSE kwargs[Head(tmpl).text])
            \o Filled(Tail(tmpl), kwargs)
format(tmpl, kwargs) ==
    IF \E i \in 1..Len(tmpl) : tmpl[i].kind = "field" /\ tmpl[i].text \notin DOMAIN kwargs
    THEN Raises("KeyError")
    ELSE Return(Filled(tmpl, kwargs))

\* The names of the skim classes and of the skim properties.
DA == <<"D", "A">>
WLK_TRN == <<"W", "T">>
BIKE == <<"B">>
SOV == <<"S">>
time == <<"t", "i", "m", "e">>
dist == <<"d", "i", "s", "t">>
ModeClasses == <<"highway", "transit", "active_modes">>

\* controller.config: per mode class its skim classes with their skims and
\* its two templates; controller.time_period_names.
SkimConfig ==
    [ time_period_names |-> { <<"A", "M">> },
      highway |->
        [ classes |-> (DA :> {time, dist}),
          output_skim_matrixname_tmpl |->
            << Field("class_name"), Lit(<<"_">>), Field("property_name") >>,
          output_skim_filename_tmpl |-> << Lit(<<"h", "_">>), Field("time_period") >> ],
      transit |->
        [ classes |-> (WLK_TRN :> {time}),
          output_skim_matrixname_tmpl |->
            << Field("time_period"), Lit(<<"_">>), Field("mode"), Lit(<<"_">>),
               Field("property") >>,
          output_skim_filename_tmpl |->
            << Lit(<<"t", "_">>), Field("time_period"), Lit(<<"_">>), Field("set_name") >> ],
      active_modes |->
        [ classes |-> (BIKE :> {dist}),
          output_skim_matrixname_tmpl |->
            << Field("time_period"), Lit(<<"_">>), Field("mode"), Lit(<<"_">>),
               Field("property") >>,
          output_skim_filename_tmpl |->
            << Lit(<<"n", "_">>), Field("time_period"), Lit(<<"_">>), Field("mode") >> ] ]

\* The keywords the matrix name and the file name of a mode class are
\* formatted with, for the skim mode called name.
MatrixKeywords(class, name, time_period, property) ==
    IF class = "highway"
    THEN [class_name |-> name, property_name |-> property]
    ELSE [time_period |-> Lower(time_period), mode |-> name, property |-> property]
FileKeywords(class, name, time_period) ==
    CASE class = "highway" -> [time_period |-> Lower(time_period)]
      [] class = "transit" -> [time_period |-> time_period, set_name |-> name]
      [] class = "active_modes" -> [time_period |-> time_period, mode |-> name]

\* The local variables _config, _matrix_name and _filename; each is unbound
\* until assigned.
Unbound == [_config |-> NoValue, _matrix_name |-> NoValue, _filename |-> NoValue]

\* The two format calls of one branch, on the templates of the mode class
\* _config with the keywords of the mode class keyed.
BuildNames(config, _config, keyed, name, time_period, property) ==
    LET _matrix_name == format(config[_config].output_skim_matrixname_tmpl,
                               MatrixKeywords(keyed, name, time_period, property))
        _filename == format(config[_config].output_skim_filename_tmpl,
                            FileKeywords(keyed, name, time_period))
    IN  IF _matrix_name.kind = "raise" THEN _matrix_name
        ELSE IF _filename.kind = "raise" THEN _filename
        ELSE Return([_config |-> Some(_config), _matrix_name |-> Some(_matrix_name.value),
                     _filename |-> Some(_filename.value)])

\* The first mode class that has a skim class called skim_mode, if any.
ClassOf(config, skim_mode) ==
    LET having == {k \in 1..Len(ModeClasses) :
                      skim_mode \in DOMAIN config[ModeClasses[k]].classes}
    IN  IF having = {} THEN NoValue
        ELSE Some(ModeClasses[CHOOSE k \in having : \A j \in having : k <= j])

\* Lines 86-143: the names from force_read where it is given, else the mode
\* class of skim_mode and the check of the property.
FirstBlock(config, skim_mode, time_period, property, force_read) ==
    IF Len(force_read) > 0
    THEN IF \E k \in 1..Len(ModeClasses) : ModeClasses[k] = force_read[1]
         THEN BuildNames(config, force_read[1], force_read[1], force_read[2],
                         time_period, property)
         ELSE Return(Unbound)
    ELSE LET class == ClassOf(config, skim_mode)
         IN  IF class = NoValue THEN Raises("NotImplementedError")
             ELSE LET skims == config[class[1]].classes[skim_mode]
                  IN  IF property \notin skims \cup {Upper(e) : e \in skims}
                      THEN Raises("ValueError")
                      ELSE Return([Unbound EXCEPT !._config = Some(class[1])])

\* Lines 145-172: for a configured skim_mode the names are built from
\* skim_mode, on the templates of _config.
SecondBlock(config, locals, skim_mode, time_period, property) ==
    LET class == ClassOf(config, skim_mode)
    IN  IF class = NoValue THEN Return(locals)
        ELSE IF locals._config = NoValue THEN Raises("UnboundLocalError")
        ELSE BuildNames(config, locals._config[1], class[1], skim_mode,
                        time_period, property)

\* get_omx_skim_as_numpy(controller, skim_mode, time_period, property,
\* None, force_read): the mode class, the file and the matrix that are read.
get_omx_skim_as_numpy(config, skim_mode, time_period, property, force_read) ==
    IF Upper(time_period) \notin config.time_period_names THEN Raises("ValueError")
    ELSE LET first == FirstBlock(config, skim_mode, time_period, property, force_read)
         IN  IF first.kind = "raise" THEN first
             ELSE LET second == SecondBlock(config, first.value, skim_mode,
                                            time_period, property)
                  IN  IF second.kind = "raise" THEN second
                      ELSE IF second.value._config = NoValue
                              \/ second.value._filename = NoValue
                              \/ second.value._matrix_name = NoValue
                      THEN Raises("UnboundLocalError")
                      ELSE Return([_config |-> second.value._config[1],
                                   _filename |-> second.value._filename[1],
                                   _matrix_name |-> second.value._matrix_name[1]])

\* The arguments of the calls: skim modes configured and not, time periods
\* in either case, properties in either case, and force_read absent or
\* naming a mode class and a skim mode.
SkimModeNames == {DA, WLK_TRN, BIKE, SOV}
TimePeriodNames == { <<"A", "M">>, <<"a", "m">>, <<"P", "M">> }
PropertyNames == {time, Upper(time), dist}
ForceReads ==
    { <<>> } \cup { <<class, name>> : class \in {"highway", "transit", "active_modes", "all"},
                                     name \in SkimModeNames }

InitSkim ==
    /\ pc = "skim"
    /\ \E skim_mode \in SkimModeNames, time_period \in TimePeriodNames,
          property \in PropertyNames, force_read \in ForceReads :
          call = [skim_mode |-> skim_mode, time_period |-> time_period,
                  property |-> property, force_read |-> force_read]
    /\ NothingOpen

GetOmxSkimAsNumpy ==
    /\ pc = "skim"
    /\ call' = call @@ [outcome |-> get_omx_skim_as_numpy(SkimConfig, call.skim_mode,
                            call.time_period, call.property, call.force_read)]
    /\ pc' = "read"
    /\ UNCHANGED <<db, bank, periods, transit_links, enum_desc, groups, ppc, gi, err,
                   fi, pass, snap, netVars>>

SpecSkim == InitSkim /\ [][GetOmxSkimAsNumpy]_vars

----------------------------------------------------------------------------
(* Properties of the slicing routine *)

\* The slicing of the current emmebank has returned.
SlicingFinished ==
    \/ db = "highway" /\ pc = "transit"
    \/ db = "transit" /\ pc = "filter" /\ fi = 1

\* The period loop of the current emmebank is running or has returned.
InSlicing == pc = "periods" \/ SlicingFinished

Groups == GroupList(groups)
Ref == bank[db][AllDay]
PeriodIds == 1..Len(periods)
PeriodScenario(k) == bank[db][periods[k].emme_scenario_id]

\* C1: after slicing, every period scenario has an attribute named root for
\* every discovered root, and none named root + Q for a configured period
\* name Q.
C1_CompleteUnderRoot ==
    SlicingFinished =>
        \A i \in 1..Len(Groups), k \in PeriodIds :
            LET names == DOMAIN PeriodScenario(k).attrs
            IN  /\ Groups[i].root \in names
                /\ \A q \in PeriodIds : Groups[i].root \o periods[q].name \notin names

\* C2: after slicing, the canonical attribute of every group in every
\* period's scenario holds the values and the description that the
\* attribute root + period name has on the reference scenario.
C2_CanonicalHoldsPeriodValues ==
    SlicingFinished =>
        \A i \in 1..Len(Groups), k \in PeriodIds :
            LET src == Groups[i].root \o periods[k].name
                can == CanonicalName(Groups[i].root)
                got == PeriodScenario(k).attrs
            IN  src \in DOMAIN Ref.attrs =>
                  /\ can \in DOMAIN got
                  /\ got[can].values = Ref.attrs[src].values
                  /\ got[can].description = Ref.attrs[src].description

\* C3: slicing never returns without an error when some discovered root has
\* no attribute root + period name on the reference scenario for some
\* configured period.
C3_MissingSourceNeverCompletes ==
    SlicingFinished =>
        \A i \in 1..Len(Groups), k \in PeriodIds :
            Groups[i].root \o periods[k].name \in DOMAIN Ref.attrs

\* C4: once an exception has been raised, nothing changes any more: no
\* period is processed, no stage is started, and the run stays in error.
C4_FailureAbortsRun == [][err # "none" => UNCHANGED vars]_vars

\* The highway slicing has failed on creating an attribute in the first of
\* two periods; the second period and the transit stages are untouched.
C4_Witness ==
    /\ pc = "error"
    /\ err = "ExistenceError"
    /\ db = "highway"
    /\ Len(periods) = 2
    /\ ppc[1] = "copied"
    /\ ppc[2] = "todo"

\* C5, as stated: no attribute name is recorded in the attribute-group table
\* more than once, whatever the configured period names.
C5_RecordedAtMostOnce ==
    InSlicing =>
        \A i, j \in 1..Len(Groups) :
            \A a \in 1..Len(Groups[i].attrs), b \in 1..Len(Groups[j].attrs) :
                Groups[i].attrs[a] = Groups[j].attrs[b] => i = j /\ a = b

\* C6, as stated: when the canonical attribute of a group exists on the
\* reference scenario, the run does not fail on creating it.
C6_ExistingCanonicalReused ==
    \A k \in PeriodIds :
        ( /\ pc = "error"
          /\ ppc[k] = "copied"
          /\ IsCurrent(k)
          /\ AllDay \in DOMAIN bank[db]
          /\ CanonicalName(Groups[gi[k] + 1].root) \in DOMAIN Ref.attrs )
        => err # "ExistenceError"

\* C7: a period's slot is empty when the reference is copied into it, and
\* right after the copy it holds the attributes, values and lines of the
\* reference scenario and nothing else.
C7_SlotIsCopyOfReference ==
    pc = "periods" =>
        \A k \in PeriodIds :
            /\ ppc[k] = "cleared" => periods[k].emme_scenario_id \notin DOMAIN bank[db]
            /\ (ppc[k] = "copied" /\ gi[k] = 0) =>
                  /\ PeriodScenario(k).attrs = Ref.attrs
                  /\ PeriodScenario(k).lines = Ref.lines

\* The reference has just been copied into a slot that held a scenario of
\* an earlier run (as the other slots still do).
C7_Witness ==
    /\ pc = "periods"
    /\ \E k \in PeriodIds : ppc[k] = "copied" /\ gi[k] = 0
    /\ \E id \in DOMAIN bank[db] : bank[db][id] = Leftover
    /\ DOMAIN Ref.attrs # {}

\* C8: a second call of the slicing routine does not fail and leaves every
\* scenario of the emmebank as the first call left it.
C8_SecondCallSameResult ==
    pass = 2 => /\ err = "none"
                /\ pc = "done" => bank.highway = snap

\* The second call has returned, for two periods and at least one group.
C8_Witness ==
    /\ pass = 2
    /\ pc = "done"
    /\ Len(periods) = 2
    /\ Len(Groups) > 0

\* The period's scenario after the first n groups, computed from the
\* reference scenario alone.
SlicedScenario(k, n) ==
    LET start == [Ref EXCEPT !.title =
                    Truncate(periods[k].name \o <<" ">> \o Ref.title, TitleMax)]
        F[i \in 0..n] ==
            IF i = 0 THEN start
            ELSE ReduceGroupIn(F[i - 1], Groups[i], periods[k].name).s
    IN  F[n]

\* C9: in every order and interleaving of the periods' steps, a period's
\* scenario is what its own steps make of the reference scenario.
C9_PeriodsIndependent ==
    (pc \in {"periods", "done"} /\ AllDay \in DOMAIN bank[db]) =>
        \A k \in PeriodIds :
            ppc[k] \in {"copied", "done"} => PeriodScenario(k) = SlicedScenario(k, gi[k])

\* The second period is finished while the first is still being reduced.
C9_Witness ==
    /\ pc = "periods"
    /\ Len(periods) = 2
    /\ ppc[2] = "done"
    /\ ppc[1] = "copied"
    /\ gi[1] = 1
    /\ gi[2] = 2

----------------------------------------------------------------------------
(* Properties of _set_speed *)

RowsOf(c) == {i \in 1..Len(capclass_lookup) : capclass_lookup[i].capclass = c}

\* C10, as stated: a link whose capclass is absent from the lookup table,
\* and a link whose capclass is in it with free_flow_speed 0, both end with
\* a free-flow speed of 25.
C10_DefaultSpeedForMissingAndZero ==
    pc = "speed_set" =>
        \A l \in DOMAIN links :
            LET rows == RowsOf(links[l].capclass)
            IN  ( \/ rows = {}
                  \/ \A i \in rows : /\ capclass_lookup[i].has_speed
                                      /\ capclass_lookup[i].free_flow_speed = 0 )
                => links[l].free_flow_speed = DefaultSpeed

\* The free-flow speed the table gives for capclass c: that of the last row
\* for c that has a speed, and 25 when there is none.
TableSpeed(c) ==
    LET rows == {i \in RowsOf(c) : capclass_lookup[i].has_speed}
    IN  IF rows = {} THEN DefaultSpeed
        ELSE capclass_lookup[CHOOSE i \in rows : \A j \in rows : j <= i].free_flow_speed

\* C11: every link's free-flow time is 60 * length / speed, where speed is
\* the link's looked-up free-flow speed, or 25 when that is zero; the divisor
\* is never zero.
C11_FreeFlowTime ==
    pc = "speed_set" =>
        \A l \in DOMAIN links :
            LET looked == TableSpeed(links[l].capclass)
            IN  /\ links[l].free_flow_time.den # 0
                /\ links[l].free_flow_time.num = 60 * links[l].length
                /\ links[l].free_flow_time.den = (IF looked = 0 THEN DefaultSpeed ELSE looked)

\* The speeds have been set for a link of positive length whose capclass has
\* a row with speed zero, below a row without a speed.
C11_Witness ==
    /\ pc = "speed_set"
    /\ Len(capclass_lookup) = 2
    /\ capclass_lookup[1].has_speed /\ capclass_lookup[1].free_flow_speed = 0
    /\ ~capclass_lookup[2].has_speed
    /\ \E l \in DOMAIN links : /\ links[l].capclass = capclass_lookup[1].capclass
                                /\ links[l].capclass = capclass_lookup[2].capclass
                                /\ links[l].length > 0
----------------------------------------------------------------------------
(* Properties of _set_area_type and _set_capclass *)

MazIds == DOMAIN maz_landuse_data

\* The MAZ z has a node in the network, and where.
HasNode(z) == \E n \in DOMAIN nodes : nodes[n].maz_id = z
NodeOfMaz(z) == nodes[CHOOSE n \in DOMAIN nodes : nodes[n].maz_id = z]

\* The loop over the MAZs has passed z; the loop over the links has passed l.
ZoneDone(z) ==
    \/ pc = "density" /\ z < ci
    \/ pc \in {"area_links", "capclass", "set_speed", "speed_set"}
    \/ pc = "error" /\ calls.nearest > 0
LinkDone(l) ==
    \/ pc = "area_links" /\ l < ci
    \/ pc \in {"capclass", "set_speed", "speed_set"}

\* C12: the area type of a MAZ is 5 for a density below 6, 4 from 6 to
\* below 30, 3 from 30 to below 55, 2 from 55 to below 100, 1 from 100 to
\* below 300 and 0 from 300 on.
C12_DensityBreakpoints ==
    \A z \in MazIds :
        maz_landuse_data[z].density # NoValue =>
            LET d == maz_landuse_data[z].density[1]
                code == maz_landuse_data[z].area_type[1]
            IN  /\ code \in 0..5
                /\ code = 5 <=> d.num < 6 * d.den
                /\ code = 4 <=> (6 * d.den <= d.num /\ d.num < 30 * d.den)
                /\ code = 3 <=> (30 * d.den <= d.num /\ d.num < 55 * d.den)
                /\ code = 2 <=> (55 * d.den <= d.num /\ d.num < 100 * d.den)
                /\ code = 1 <=> (100 * d.den <= d.num /\ d.num < 300 * d.den)
                /\ code = 0 <=> 300 * d.den <= d.num

\* A MAZ has been classified whose density is exactly 30: its area type is
\* that of the band beginning at 30.
C12_Witness ==
    /\ pc = "area_links"
    /\ \E z \in MazIds :
          /\ maz_landuse_data[z].density # NoValue
          /\ maz_landuse_data[z].density[1].num = 30 * maz_landuse_data[z].density[1].den
          /\ maz_landuse_data[z].area_type = Some(3)

\* The MAZs the index returns for the square buffer around the node of z.
BufferOf(z) ==
    within_square(sp_index_maz, NodeOfMaz(z).x, NodeOfMaz(z).y, buff_dist)

\* C13: the density of a MAZ with a node is (POP + 2.5 emp_total) / ACRES of
\* the sums over the MAZs in its square buffer, itself included; with summed
\* acres not above 0 the density is 0 and the area type 5.
C13_DensityOfBuffer ==
    \A z \in MazIds :
        (HasNode(z) /\ ZoneDone(z)) =>
            LET S == BufferOf(z)
                pop   == SumOver(S, [w \in S |-> maz_landuse_data[w].POP])
                emp   == SumOver(S, [w \in S |-> maz_landuse_data[w].emp_total])
                acres == SumOver(S, [w \in S |-> maz_landuse_data[w].ACRES])
            IN  /\ z \in S
                /\ maz_landuse_data[z].density # NoValue
                /\ LET d == maz_landuse_data[z].density[1]
                   IN  IF acres > 0
                       THEN 2 * d.num * acres = (2 * pop + 5 * emp) * d.den
                       ELSE d.num = 0 /\ maz_landuse_data[z].area_type = Some(5)

\* All MAZs are classified; one, with people and acres, has another MAZ
\* with jobs in its buffer.
C13_Witness ==
    /\ pc = "area_links"
    /\ \E z, w \in MazIds :
          /\ z # w /\ HasNode(z) /\ HasNode(w)
          /\ w \in BufferOf(z)
          /\ maz_landuse_data[w].emp_total > 0
          /\ maz_landuse_data[z].ACRES > 0
          /\ maz_landuse_data[z].POP > 0

\* C14: when the population or the employment of a MAZ has grown and nothing
\* else has changed, no MAZ has a higher area type than before.
C14_DensityMonotone ==
    (pc = "area_links" /\ prior # NoValue) =>
        \A z \in MazIds :
            prior[1][z] # NoValue =>
                maz_landuse_data[z].area_type[1] <= prior[1][z][1]

\* The land use has grown and the first MAZ, with a second MAZ in its
\* buffer, has got a lower area type than before.
C14_Witness ==
    /\ pc = "area_links"
    /\ prior # NoValue
    /\ HasNode(2)
    /\ maz_landuse_data[1].area_type[1] < prior[1][1][1]

\* C15: the area type of a link is the lower of the area types of the MAZs
\* nearest to its i-node and to its j-node.
C15_LinkTakesMinimum ==
    \A l \in DOMAIN links :
        LinkDone(l) =>
            LET a == nearest(sp_index_maz, nodes[links[l].i_node].x, nodes[links[l].i_node].y)[1]
                b == nearest(sp_index_maz, nodes[links[l].j_node].x, nodes[links[l].j_node].y)[1]
                ta == maz_landuse_data[a].area_type[1]
                tb == maz_landuse_data[b].area_type[1]
            IN  links[l].area_type = (IF ta <= tb THEN ta ELSE tb)

\* The links are classified; the j-node of one maps to a MAZ of a lower area
\* type than its i-node, and both nodes of another map to the same MAZ.
C15_Witness ==
    /\ pc = "capclass"
    /\ \E l, m \in DOMAIN links :
          LET N(n) == nearest(sp_index_maz, nodes[n].x, nodes[n].y)[1]
          IN  /\ maz_landuse_data[N(links[l].j_node)].area_type[1]
                    < maz_landuse_data[N(links[l].i_node)].area_type[1]
              /\ N(links[m].i_node) = N(links[m].j_node)

\* C16: a MAZ without a node has no coordinates and no area type, is not in
\* the index, is in no buffer of a MAZ and is the nearest MAZ of no node.
C16_ZoneWithoutNodeSkipped ==
    \A z \in MazIds :
        ~HasNode(z) =>
            /\ maz_landuse_data[z].coords = NoValue
            /\ maz_landuse_data[z].area_type = NoValue
            /\ z \notin DOMAIN sp_index_maz.points
            /\ \A c \in DOMAIN sp_index_maz.cells : z \notin sp_index_maz.cells[c]
            /\ \A n \in DOMAIN nodes :
                  /\ z \notin within_square(sp_index_maz, nodes[n].x, nodes[n].y, buff_dist)
                  /\ nearest(sp_index_maz, nodes[n].x, nodes[n].y) # Some(z)

\* The network is classified; a MAZ with people has no node, another MAZ
\* has one.
C16_Witness ==
    /\ pc = "speed_set"
    /\ \E z, w \in MazIds :
          /\ ~HasNode(z) /\ maz_landuse_data[z].POP > 0
          /\ HasNode(w) /\ maz_landuse_data[w].area_type # NoValue

\* C17: after _set_capclass a link of negative area type has capclass -1,
\* whatever its facility type, and any other link 10 * area type + facility
\* type.
C17_Capclass ==
    pc \in {"set_speed", "speed_set"} =>
        \A l \in DOMAIN links :
            links[l].capclass = (IF links[l].area_type < 0 THEN -1
                                 ELSE 10 * links[l].area_type + links[l].ft)

\* _set_capclass has run on a link of area type -1 and facility type 7.
C17_Witness ==
    /\ pc = "set_speed"
    /\ \E l \in DOMAIN links : links[l].area_type = -1 /\ links[l].ft = 7

\* The index holds every MAZ node; every MAZ of the index has its area type.
AllInserted ==
    \A n \in DOMAIN nodes :
        nodes[n].maz_id # 0 => nodes[n].maz_id \in DOMAIN sp_index_maz.points
AllTyped ==
    \A z \in DOMAIN sp_index_maz.points : maz_landuse_data[z].area_type # NoValue

\* C18: an insert is made only while no within_square and no nearest query
\* has been made; a nearest query is made only when every MAZ node is in the
\* index and every MAZ of the index has its area type.
C18_PhasesOrdered ==
    [][ /\ calls'.insert # calls.insert =>
              calls.within_square = 0 /\ calls.nearest = 0
        /\ calls'.nearest # calls.nearest => AllInserted /\ AllTyped ]_vars

\* Two inserts, two buffer queries and the nearest queries of all links have
\* been made.
C18_Witness ==
    /\ pc = "capclass"
    /\ calls.insert = 2
    /\ calls.within_square = 2
    /\ calls.nearest = 2 * Len(links)

\* The highway scenario of period k has been cloned from the reference.
HighwayCloned(k) ==
    \/ db = "highway" /\ ppc[k] \in {"copied", "done"}
    \/ db = "transit"

\* The values the classified network holds for a stamped attribute.
Stamped(name) ==
    [e \in Elems |->
        IF name = <<"area_type">> THEN links[e].area_type
        ELSE IF name = <<"capclass">> THEN links[e].capclass
        ELSE IF name = <<"free_flow_speed">> THEN links[e].free_flow_speed
        ELSE links[e].free_flow_time]

\* C19: every cloned highway period scenario holds, for @area_type,
\* @capclass, @free_flow_speed and @free_flow_time, the values of the
\* reference scenario, which are those of the classified network (a period
\* configured with the reference's own id deletes the reference: the clones
\* made before it keep the values).
C19_PeriodsCarryStampedValues ==
    \A k \in PeriodIds :
        HighwayCloned(k) =>
            LET s == bank.highway[periods[k].emme_scenario_id]
            IN  \A i \in 1..Len(HighwayAttributes) :
                    LET name == HighwayAttributes[i]
                    IN  /\ name \in DOMAIN s.attrs
                        /\ s.attrs[name].values = Stamped(name)
                        /\ AllDay \in DOMAIN bank.highway =>
                              s.attrs[name].values = bank.highway[AllDay].attrs[name].values

\* Two periods are sliced in the highway emmebank, from a reference that had
\* none of the four attributes before the run, and the links are of area
\* type 2 and capclass 27.
C19_Witness ==
    /\ pc = "transit"
    /\ Len(periods) = 2
    /\ \A k \in PeriodIds : ppc[k] = "done"
    /\ \A e \in Elems : links[e].area_type = 2 /\ links[e].capclass = 27
                          /\ links[e].free_flow_speed = 55

\* Queries of within_square: centres on and off the cell borders, half
\* widths below, at and above the cell size.
QueryCoords == {-5280, -2641, -2640, -1, 0, 1320, 2639, 2640, 5280}
QueryWidths == {0, 1, 1320, 2640, 5280, 8000}

\* C20: on the index of the nodes of a network, within_square gives exactly
\* the inserted ids whose point lies within half_width of the centre in x
\* and in y.
C20_WithinSquareExact ==
    (pc = "density" /\ ci = 1) =>
        LET inserted == {n \in DOMAIN nodes :
                            /\ nodes[n].maz_id # 0
                            /\ (pc = "index" => n < ci)}
        IN  \A qx \in QueryCoords, qy \in QueryCoords, r \in QueryWidths :
                within_square(sp_index_maz, qx, qy, r)
                    = {nodes[n].maz_id : n \in {n \in inserted :
                           /\ Abs(nodes[n].x - qx) <= r
                           /\ Abs(nodes[n].y - qy) <= r}}

\* The index holds two MAZs in different cells, one of them in a cell of
\* negative x.
C20_Witness ==
    /\ pc = "density"
    /\ ci = 1
    /\ Cardinality(DOMAIN sp_index_maz.cells) = 2
    /\ \E c \in DOMAIN sp_index_maz.cells : c[1] < 0

\* The nodes whose MAZ is in the index, and the squared distance of a node
\* to a point.
InsertedNodes ==
    {n \in DOMAIN nodes : nodes[n].maz_id # 0 /\ (pc = "index" => n < ci)}
NodeDist2(n, qx, qy) == Sq(nodes[n].x - qx) + Sq(nodes[n].y - qy)

\* C21: on a non-empty index nearest gives the inserted id whose point is
\* closest to the query point, and among equally close ones the lowest id.
C21_NearestExact ==
    (pc = "density" /\ ci = 1 /\ InsertedNodes # {}) =>
        \A qx \in QueryCoords, qy \in QueryCoords :
            \E n \in InsertedNodes :
                /\ nearest(sp_index_maz, qx, qy) = Some(nodes[n].maz_id)
                /\ \A m \in InsertedNodes :
                      \/ NodeDist2(n, qx, qy) < NodeDist2(m, qx, qy)
                      \/ /\ NodeDist2(n, qx, qy) = NodeDist2(m, qx, qy)
                         /\ nodes[n].maz_id <= nodes[m].maz_id

\* The index is full; the id nearest to one query point lies in a farther
\* ring of cells than another id, and two ids are equally close to another
\* query point.
C21_Witness ==
    /\ pc = "density" /\ ci = 1
    /\ \E qx \in QueryCoords, qy \in QueryCoords, a, b \in DOMAIN sp_index_maz.points :
          LET q == CellOf(sp_index_maz, qx, qy)
              RingOf(id) ==
                  LET c == CellOf(sp_index_maz, sp_index_maz.points[id][1],
                                  sp_index_maz.points[id][2])
                  IN  Max(Abs(c[1] - q[1]), Abs(c[2] - q[2]))
          IN  /\ nearest(sp_index_maz, qx, qy) = Some(a)
              /\ RingOf(b) < RingOf(a)
    /\ \E qx \in QueryCoords, qy \in QueryCoords, a, b \in DOMAIN sp_index_maz.points :
          /\ a < b
          /\ Dist2(sp_index_maz, a, qx, qy) = Dist2(sp_index_maz, b, qx, qy)
          /\ nearest(sp_index_maz, qx, qy) = Some(a)

\* C29: once _set_area_type has classified a link its area type is one of
\* 0..5, and _set_capclass then gives it 10 * area type + facility type,
\* never -1.
C29_NoSentinelAfterAreaType ==
    \A l \in DOMAIN links :
        /\ LinkDone(l) => links[l].area_type \in 0..5
        /\ pc \in {"set_speed", "speed_set"} =>
              /\ links[l].capclass # -1
              /\ links[l].capclass = 10 * links[l].area_type + links[l].ft

\* _set_capclass has run on a network classified from the land use: one
\* link is rural (area type 5, no density around it), another is not.
C29_Witness ==
    /\ pc = "set_speed"
    /\ \E l, m \in DOMAIN links :
          /\ links[l].area_type = 5 /\ links[l].capclass = 57
          /\ links[m].area_type < 5

\* C27: no step of _prepare_scenarios_and_attributes deletes or changes the
\* all-day scenario of the emmebank it works on.
ReferenceKept ==
    /\ AllDay \in DOMAIN bank'[db]
    /\ bank'[db][AllDay] = bank[db][AllDay]
C27_ReferenceUntouched == [][(pc \in {"discover", "periods"}) => ReferenceKept]_vars

\* C26: the canonical name of a root is the root less one trailing
\* underscore, and two different roots of one domain never have the same
\* canonical name.
C26_CanonicalNamesDistinct ==
    \A i, j \in DOMAIN Groups :
        /\ EndsWith(Groups[i].root, <<"_">>) =>
              CanonicalName(Groups[i].root) \o <<"_">> = Groups[i].root
        /\ (i # j /\ Groups[i].domain = Groups[j].domain) =>
              CanonicalName(Groups[i].root) # CanonicalName(Groups[j].root)

\* Two strings that differ at most in the case of their letters.
SameIgnoringCase(s, u) ==
    /\ Len(s) = Len(u)
    /\ \A i \in 1..Len(s) :
          s[i] = u[i] \/ UpperChar(s[i]) = u[i] \/ s[i] = UpperChar(u[i])

\* The transit lines of the scenario of period k are, or become, fewer.
LinesRemoved(k) ==
    LET id == periods[k].emme_scenario_id
    IN  /\ id \in DOMAIN bank.transit
        /\ id \in DOMAIN bank'.transit
        /\ bank'.transit[id].lines # bank.transit[id].lines
        /\ bank'.transit[id].lines \subseteq bank.transit[id].lines

\* C28: when run() has ended normally every period's transit scenario holds
\* exactly the lines of the reference whose #time_period is the period's
\* name but for case, and lines are removed from a period's scenario only
\* once the scenario has been cloned and all its attribute groups reduced.
C28_OwnLinesOnly ==
    /\ [](pc = "done" =>
            \A k \in PeriodIds :
                bank.transit[periods[k].emme_scenario_id].lines
                    = {l \in bank.transit[AllDay].lines :
                          SameIgnoringCase(l.time_period, periods[k].name)})
    /\ [][\A k \in PeriodIds :
              LinesRemoved(k) => (db = "transit" /\ ppc[k] = "done")]_vars

\* run() has ended for the periods AM and PM: the scenario of AM holds the
\* line of "am" alone, the scenario of PM the line of "PM" alone.
C28_Witness ==
    /\ pc = "done"
    /\ Len(periods) = 2
    /\ \E k, j \in PeriodIds :
          /\ periods[k].name = AM /\ periods[j].name = PM
          /\ {l.time_period : l \in bank.transit[periods[k].emme_scenario_id].lines}
                = {<<"a", "m">>}
          /\ {l.time_period : l \in bank.transit[periods[j].emme_scenario_id].lines}
                = {<<"P", "M">>}

\* The highway links that carry the #link_id of the transit link e.
Twins(e) == {h \in DOMAIN links : links[h].link_id = transit_links[e].link_id}

\* The transit reference holds, for the transit link e and the attribute
\* name, the value of the highway twin of e, or without twin the value it
\* held before (0 for an attribute that is new).
CopiedOrKept(e, name) ==
    LET held == bank.transit[AllDay].attrs
        now  == bank'.transit[AllDay].attrs[name].values[e]
    IN  IF Twins(e) = {}
        THEN now = (IF name \in DOMAIN held THEN held[name].values[e] ELSE 0)
        ELSE \E h \in Twins(e) : now = AutoValue(links[h], name)

\* The step that begins the transit pass: the highway pass has sliced every
\* period, and if the step succeeds the four attributes are copied.
TransitPassBegins ==
    /\ pc = "transit"
    /\ \A k \in PeriodIds :
          ppc[k] = "done" /\ periods[k].emme_scenario_id \in DOMAIN bank.highway
    /\ \A h \in DOMAIN links : links[h].capclass = 10 * links[h].area_type + links[h].ft
    /\ pc' = "discover" =>
          \A e \in Elems, i \in DOMAIN HighwayAttributes :
              CopiedOrKept(e, HighwayAttributes[i])

\* C22: the transit pass begins only when the highway pass has finished,
\* and gives every transit link the four values of the stamped highway link
\* of the same #link_id; a transit link without such a link keeps its
\* values.
C22_TransitCopiesFromHighway ==
    [][(db = "highway" /\ db' = "transit") => TransitPassBegins]_vars

\* The transit pass has copied the attributes: one transit link holds the
\* values of its highway twin, which lies at another position, and the
\* other, without twin, the values an earlier run left.
C22_Witness ==
    /\ db = "transit"
    /\ pc = "discover"
    /\ \E e, f \in Elems :
          /\ e # f
          /\ Twins(e) = {f}
          /\ bank.transit[AllDay].attrs[<<"free_flow_time">>].values[e]
                = links[f].free_flow_time
          /\ bank.transit[AllDay].attrs[<<"capclass">>].values[e] = 27
          /\ Twins(f) = {}
          /\ \E i \in UIndex :
                /\ AttrUniverse[i].name = <<"capclass">>
                /\ bank.transit[AllDay].attrs[<<"capclass">>].values[f] = RefValue(i, f)

\* C23: whatever parse_num_processors returns is an int between 1 and the
\* number of processors of the machine; a value above that number or below
\* 1 is answered by an exception.
C23_ProcessorsInRange ==
    (pc = "parsed" /\ call.outcome.kind = "return") =>
        /\ call.outcome.value.type = "int"
        /\ 1 <= call.outcome.value.n
        /\ call.outcome.value.n <= call.max_processors

\* The element-wise sum of a list of matrices.
RECURSIVE SumOf(_)
SumOf(mx) ==
    IF Len(mx) = 1 THEN mx[1]
    ELSE [i \in 1..MatrixCells |-> SumOf(SubSeq(mx, 1, Len(mx) - 1))[i] + mx[Len(mx)][i]]

\* C24: get_summed_skims returns the element-wise sum of the skims of every
\* pair of a given mode and a given property, whether there is one pair,
\* two, or more.
C24_SumOfAllPairs ==
    pc = "summed" =>
        LET pairs == product(AsList(call.mode), AsList(call.property))
        IN  /\ call.outcome.kind = "return"
            /\ call.outcome.value = SumOf([k \in 1..Len(pairs) |-> call.skims[pairs[k]]])

\* C25: with force_read naming a mode class and a skim mode, and a time
\* period of the configuration, the matrix name and the file that are read
\* are the ones built from force_read, whatever skim_mode is, a configured
\* class name included.
C25_ForceReadDecides ==
    (/\ pc = "read"
     /\ Len(call.force_read) > 0
     /\ call.force_read[1] \in {"highway", "transit", "active_modes"}
     /\ Upper(call.time_period) \in SkimConfig.time_period_names) =>
        LET forced == BuildNames(SkimConfig, call.force_read[1], call.force_read[1],
                                 call.force_read[2], call.time_period, call.property)
        IN  /\ call.outcome.kind = "return"
            /\ call.outcome.value._config = call.force_read[1]
            /\ call.outcome.value._matrix_name = forced.value._matrix_name[1]
            /\ call.outcome.value._filename = forced.value._filename[1]

\* No MAZ has an area type and no link has asked for its nearest MAZ.
NoAreaTypeWritten ==
    /\ \A z \in MazIds : maz_landuse_data[z].area_type = NoValue
    /\ calls.nearest = 0

\* Every id the index holds has a land-use record with the coordinates it
\* was inserted at, and once the links are classified an area type.
AreaTypesPresent ==
    \A id \in DOMAIN sp_index_maz.points :
        /\ id \in MazIds
        /\ maz_landuse_data[id].coords = Some(sp_index_maz.points[id])
        /\ pc = "area_links" => maz_landuse_data[id].area_type # NoValue

\* The run ended at the node of a MAZ that has no land-use record, while
\* the index was filled.
FailedOnMissingRecord ==
    /\ err = "KeyError"
    /\ ci \in DOMAIN nodes
    /\ NoRecord(nodes[ci])
    /\ NoAreaTypeWritten

\* The run ended at the first link, the index being empty.
FailedOnEmptyIndex ==
    /\ err = "LookupError"
    /\ DOMAIN sp_index_maz.points = {}
    /\ ci = 1
    /\ calls.nearest = 1

====
